---- MODULE Spec2Model ----
(***************************************************************************)
(* State-machine model of the Sv2 Standard Channel kept by a mining        *)
(* server (channels-sv2/src/server/standard.rs) and of the Noise NX        *)
(* responder (noise-sv2/src/responder.rs).                                 *)
(*                                                                         *)
(* Numbers: a Target is an unsigned 256-bit integer in the program.  The   *)
(* model keeps the arithmetic and the comparisons and scales the width     *)
(* down to TargetBits bits.  An Option<T> is the empty tuple (None) or a   *)
(* one-element tuple (Some(x)).                                            *)
(***************************************************************************)
EXTENDS Integers, Sequences, FiniteSets, TLC

VARIABLES
    constructed,                \* TRUE once StandardChannel::new returned Ok
    extranonce_prefix,
    requested_max_target,
    target,
    nominal_hashrate,
    expected_share_per_minute,
    share_accounting,
    chain_tip,
    next_job_id,                \* JobFactory: the job_id the next job gets
    active_job,                 \* JobStore
    future_jobs,
    future_template_to_job_id,
    past_jobs,
    stale_jobs,
    lastOp,                     \* the last call: its name,
    lastArgs,                   \*   its arguments,
    lastResult,                 \*   the variant it returned
    lastPayload,                \*   and the values that variant carries
    responder,                  \* Option<Responder>: the Noise responder, once built
    handshakes,                 \* the step_1 calls made on it
    dropped                     \* TRUE once the responder was dropped; responder
                                \* is then the memory it leaves behind

cfgVars == <<extranonce_prefix, requested_max_target, target, nominal_hashrate,
             expected_share_per_minute>>
storeVars == <<active_job, future_jobs, future_template_to_job_id, past_jobs, stale_jobs>>
jobVars == <<chain_tip, next_job_id, active_job, future_jobs, future_template_to_job_id,
             past_jobs, stale_jobs>>
callVars == <<lastOp, lastArgs, lastResult, lastPayload>>
channelVars == <<constructed, cfgVars, share_accounting, jobVars>>
noiseVars == <<responder, handshakes, dropped>>
vars == <<constructed, extranonce_prefix, requested_max_target, target, nominal_hashrate,
          expected_share_per_minute, share_accounting, chain_tip, next_job_id,
          active_job, future_jobs, future_template_to_job_id, past_jobs, stale_jobs,
          lastOp, lastArgs, lastResult, lastPayload, responder, handshakes,
          dropped>>

----------------------------------------------------------------------------
(* Bounds *)

TargetBits == 10            \* width of a Target in the model (256 in the program)
MaxHashrate == 2            \* hashrates are drawn from -1 .. MaxHashrate
MaxSharesPerMinute == 1     \* expected_share_per_minute is drawn from 0 .. this
MaxJobs == 3                \* job ids handed out in one behaviour
MaxTemplateId == 2          \* template ids are drawn from 1 .. MaxTemplateId
BatchSize == 2              \* share_batch_size of the channels built, and the
                            \* shares counted in one behaviour
TimeBits == 3               \* width of a u32 of seconds in the model
MaxHandshakes == 2          \* step_1 calls on one responder
MaxChannelJobs == 2         \* jobs of a channel on which every operation is called
MaxChannelShares == 1       \* shares counted on such a channel before shares are
                            \* only sent again

(* Program constants *)

MAX_EXTRANONCE_LEN == 32
ELLSWIFT_ENCODING_SIZE == 64
MAC_SIZE == 16
ENCRYPTED_ELLSWIFT_ENCODING_SIZE == 80
SIGNATURE_NOISE_MESSAGE_SIZE == 74
ENCRYPTED_SIGNATURE_NOISE_MESSAGE_SIZE == 90
INITIATOR_EXPECTED_HANDSHAKE_MESSAGE_SIZE == 234
VERSION == 0

----------------------------------------------------------------------------
(* Option<T> *)

None == <<>>
Some(x) == <<x>>
IsSome(o) == o # <<>>
Unwrap(o) == o[1]

(* The empty map *)
EmptyMap == [k \in {} |-> 0]

(* HashMap::insert and HashMap::remove *)
MapInsert(m, k, v) == [x \in (DOMAIN m) \cup {k} |-> IF x = k THEN v ELSE m[x]]
MapRemove(m, k) == [x \in (DOMAIN m) \ {k} |-> m[x]]

----------------------------------------------------------------------------
(* Target arithmetic *)

\* the largest target, [0xff; 32] in the program
MaxTargetValue == 2^TargetBits - 1

\* hash_rate_to_target: Err(_) is the empty tuple, Ok(t) is <<t>>.
\* target = 2^256 / (h * 60 / shares_per_minute) - 1
hash_rate_to_target(h, shares_per_minute) ==
    IF h <= 0 \/ shares_per_minute <= 0
    THEN None
    ELSE Some(((2^TargetBits * shares_per_minute) \div (h * 60)) - 1)

\* Target's PartialOrd: the numeric order of the 256-bit values
TargetGt(a, b) == a > b

\* as TargetLe, with an exclusive comparison
TargetLt(a, b) == a < b

TargetLe(a, b) == a <= b

----------------------------------------------------------------------------
(* Inputs *)

Hashrates == -1 .. MaxHashrate
SharesPerMinute == 0 .. MaxSharesPerMinute

DerivedTargets ==
    {Unwrap(hash_rate_to_target(h, s)) :
        h \in 1 .. MaxHashrate, s \in 1 .. MaxSharesPerMinute}

\* Target arguments: the extremes, and every derivable target d with d - 1,
\* so that target = max and target = max + 1 both occur
Targets ==
    {t \in {0, MaxTargetValue} \cup DerivedTargets \cup {d - 1 : d \in DerivedTargets} :
        t >= 0 /\ t <= MaxTargetValue}

\* an extranonce prefix is its length and a tag that stands for its bytes
ExtranoncePrefixes ==
    {[len |-> l, bytes |-> b] :
        l \in {MAX_EXTRANONCE_LEN - 1, MAX_EXTRANONCE_LEN, MAX_EXTRANONCE_LEN + 1},
        b \in {"a", "b"}}


----------------------------------------------------------------------------
(* ShareAccounting::new(share_batch_size) *)
ShareAccountingNew(share_batch_size) ==
    [seen_shares |-> {}, shares_accepted |-> 0, share_work_sum |-> 0,
     last_sequence_number |-> 0, best_diff |-> 0, batch_size |-> share_batch_size]

Init ==
    /\ constructed = FALSE
    /\ extranonce_prefix = None
    /\ requested_max_target = 0
    /\ target = 0
    /\ nominal_hashrate = 0
    /\ expected_share_per_minute = 0
    /\ share_accounting = ShareAccountingNew(0)
    /\ chain_tip = None
    /\ next_job_id = 1
    /\ active_job = None
    /\ future_jobs = EmptyMap
    /\ future_template_to_job_id = EmptyMap
    /\ past_jobs = EmptyMap
    /\ stale_jobs = EmptyMap
    /\ lastOp = "none"
    /\ lastArgs = None
    /\ lastResult = "none"
    /\ lastPayload = None
    /\ responder = None
    /\ handshakes = 0
    /\ dropped = FALSE

\* a call returns a variant together with the values it carries
ReturnsWith(op, args, result, payload) ==
    /\ lastOp' = op
    /\ lastArgs' = args
    /\ lastResult' = result
    /\ lastPayload' = payload

Returns(op, args, result) == ReturnsWith(op, args, result, None)

----------------------------------------------------------------------------
\* as new, but a target equal to the requested maximum is refused
new_refusing_equal(prefix, max_target, hashrate, share_batch_size, shares_per_minute) ==
    LET calculated_target == hash_rate_to_target(hashrate, shares_per_minute)
        args == [nominal_hashrate |-> hashrate, requested_max_target |-> max_target,
                 expected_share_per_minute |-> shares_per_minute]
    IN  /\ ~constructed
        /\ IF calculated_target = None
           THEN /\ Returns("new", args, "InvalidNominalHashrate")
                /\ UNCHANGED <<constructed, cfgVars, share_accounting, jobVars>>
           ELSE IF Unwrap(calculated_target) >= max_target
           THEN /\ Returns("new", args, "RequestedMaxTargetOutOfRange")
                /\ UNCHANGED <<constructed, cfgVars, share_accounting, jobVars>>
           ELSE /\ constructed' = TRUE
                /\ extranonce_prefix' = prefix
                /\ requested_max_target' = max_target
                /\ target' = Unwrap(calculated_target)
                /\ nominal_hashrate' = hashrate
                /\ share_accounting' = ShareAccountingNew(share_batch_size)
                /\ expected_share_per_minute' = shares_per_minute
                /\ next_job_id' = 1
                /\ chain_tip' = None
                /\ active_job' = None
                /\ future_jobs' = EmptyMap
                /\ future_template_to_job_id' = EmptyMap
                /\ past_jobs' = EmptyMap
                /\ stale_jobs' = EmptyMap
                /\ Returns("new", args, "Ok")

(* StandardChannel::new *)
new(prefix, max_target, hashrate, share_batch_size, shares_per_minute) ==
    LET calculated_target == hash_rate_to_target(hashrate, shares_per_minute)
        args == [nominal_hashrate |-> hashrate, requested_max_target |-> max_target,
                 expected_share_per_minute |-> shares_per_minute]
    IN  /\ ~constructed
        /\ IF calculated_target = None
           THEN /\ Returns("new", args, "InvalidNominalHashrate")
                /\ UNCHANGED <<constructed, cfgVars, share_accounting, jobVars>>
           ELSE IF TargetGt(Unwrap(calculated_target), max_target)
           THEN /\ Returns("new", args, "RequestedMaxTargetOutOfRange")
                /\ UNCHANGED <<constructed, cfgVars, share_accounting, jobVars>>
           ELSE /\ constructed' = TRUE
                /\ extranonce_prefix' = prefix
                /\ requested_max_target' = max_target
                /\ target' = Unwrap(calculated_target)
                /\ nominal_hashrate' = hashrate
                /\ share_accounting' = ShareAccountingNew(share_batch_size)
                /\ expected_share_per_minute' = shares_per_minute
                /\ next_job_id' = 1
                /\ chain_tip' = None
                /\ active_job' = None
                /\ future_jobs' = EmptyMap
                /\ future_template_to_job_id' = EmptyMap
                /\ past_jobs' = EmptyMap
                /\ stale_jobs' = EmptyMap
                /\ Returns("new", args, "Ok")

\* as set_extranonce_prefix, with a prefix of MAX_EXTRANONCE_LEN bytes refused
set_extranonce_prefix_refusing_max(prefix) ==
    /\ constructed
    /\ IF prefix.len >= MAX_EXTRANONCE_LEN
       THEN /\ Returns("set_extranonce_prefix", [extranonce_prefix |-> prefix],
                       "NewExtranoncePrefixTooLarge")
            /\ UNCHANGED extranonce_prefix
       ELSE /\ extranonce_prefix' = prefix
            /\ Returns("set_extranonce_prefix", [extranonce_prefix |-> prefix], "Ok")
    /\ UNCHANGED <<constructed, requested_max_target, target, nominal_hashrate,
                   expected_share_per_minute, share_accounting, jobVars>>

(* StandardChannel::set_extranonce_prefix *)
set_extranonce_prefix(prefix) ==
    /\ constructed
    /\ IF prefix.len > MAX_EXTRANONCE_LEN
       THEN /\ Returns("set_extranonce_prefix", [extranonce_prefix |-> prefix],
                       "NewExtranoncePrefixTooLarge")
            /\ UNCHANGED extranonce_prefix
       ELSE /\ extranonce_prefix' = prefix
            /\ Returns("set_extranonce_prefix", [extranonce_prefix |-> prefix], "Ok")
    /\ UNCHANGED <<constructed, requested_max_target, target, nominal_hashrate,
                   expected_share_per_minute, share_accounting, jobVars>>

(* StandardChannel::set_target *)
set_target(t) ==
    /\ constructed
    /\ target' = t
    /\ Returns("set_target", [target |-> t], "Ok")
    /\ UNCHANGED <<constructed, extranonce_prefix, requested_max_target, nominal_hashrate,
                   expected_share_per_minute, share_accounting, jobVars>>

(* StandardChannel::set_nominal_hashrate *)
set_nominal_hashrate(hashrate) ==
    /\ constructed
    /\ nominal_hashrate' = hashrate
    /\ Returns("set_nominal_hashrate", [nominal_hashrate |-> hashrate], "Ok")
    /\ UNCHANGED <<constructed, extranonce_prefix, requested_max_target, target,
                   expected_share_per_minute, share_accounting, jobVars>>

\* as update_channel, but the new target is compared with the cached maximum
update_channel_against_cached(hashrate, max_arg) ==
    LET target_u256 == hash_rate_to_target(hashrate, expected_share_per_minute)
        max_target == IF IsSome(max_arg) THEN Unwrap(max_arg) ELSE requested_max_target
        args == [nominal_hashrate |-> hashrate, requested_max_target |-> max_arg]
    IN  /\ constructed
        /\ IF target_u256 = None
           THEN /\ Returns("update_channel", args, "InvalidNominalHashrate")
                /\ UNCHANGED <<target, nominal_hashrate, requested_max_target>>
           ELSE IF TargetGt(Unwrap(target_u256), requested_max_target)
           THEN /\ Returns("update_channel", args, "RequestedMaxTargetOutOfRange")
                /\ UNCHANGED <<target, nominal_hashrate, requested_max_target>>
           ELSE /\ target' = Unwrap(target_u256)
                /\ nominal_hashrate' = hashrate
                /\ requested_max_target' = max_target
                /\ Returns("update_channel", args, "Ok")
        /\ UNCHANGED <<constructed, extranonce_prefix, expected_share_per_minute,
                       share_accounting, jobVars>>

\* as update_channel, but the hashrate and the maximum are stored before the
\* new target is compared with the maximum
update_channel_storing_early(hashrate, max_arg) ==
    LET target_u256 == hash_rate_to_target(hashrate, expected_share_per_minute)
        max_target == IF IsSome(max_arg) THEN Unwrap(max_arg) ELSE requested_max_target
        args == [nominal_hashrate |-> hashrate, requested_max_target |-> max_arg]
    IN  /\ constructed
        /\ IF target_u256 = None
           THEN /\ Returns("update_channel", args, "InvalidNominalHashrate")
                /\ UNCHANGED <<target, nominal_hashrate, requested_max_target>>
           ELSE IF TargetGt(Unwrap(target_u256), max_target)
           THEN /\ Returns("update_channel", args, "RequestedMaxTargetOutOfRange")
                /\ nominal_hashrate' = hashrate
                /\ requested_max_target' = max_target
                /\ UNCHANGED target
           ELSE /\ target' = Unwrap(target_u256)
                /\ nominal_hashrate' = hashrate
                /\ requested_max_target' = max_target
                /\ Returns("update_channel", args, "Ok")
        /\ UNCHANGED <<constructed, extranonce_prefix, expected_share_per_minute,
                       share_accounting, jobVars>>

(* StandardChannel::update_channel; max_arg is an Option<Target> *)
update_channel(hashrate, max_arg) ==
    LET target_u256 == hash_rate_to_target(hashrate, expected_share_per_minute)
        max_target == IF IsSome(max_arg) THEN Unwrap(max_arg) ELSE requested_max_target
        args == [nominal_hashrate |-> hashrate, requested_max_target |-> max_arg]
    IN  /\ constructed
        /\ IF target_u256 = None
           THEN /\ Returns("update_channel", args, "InvalidNominalHashrate")
                /\ UNCHANGED <<target, nominal_hashrate, requested_max_target>>
           ELSE IF TargetGt(Unwrap(target_u256), max_target)
           THEN /\ Returns("update_channel", args, "RequestedMaxTargetOutOfRange")
                /\ UNCHANGED <<target, nominal_hashrate, requested_max_target>>
           ELSE /\ target' = Unwrap(target_u256)
                /\ nominal_hashrate' = hashrate
                /\ requested_max_target' = max_target
                /\ Returns("update_channel", args, "Ok")
        /\ UNCHANGED <<constructed, extranonce_prefix, expected_share_per_minute,
                       share_accounting, jobVars>>

----------------------------------------------------------------------------
(* Templates, reward outputs and SetNewPrevHash messages *)

\* the values the messages of the tests carry
Versions == {536870912}
NBits == {503543726, 545259519}

\* the chain tips of the tests: a prev_hash with its header_timestamp and n_bits
Tips ==
    {[prev_hash |-> "c835fd81", header_timestamp |-> 1747092633, n_bits |-> 503543726],
     [prev_hash |-> "fbaf6a28", header_timestamp |-> 1745596910, n_bits |-> 545259519]}

\* a NewTemplate; the value the template leaves to the reward outputs is
\* counted in units of 50 BTC
Templates ==
    [template_id : 1 .. MaxTemplateId, future_template : BOOLEAN,
     version : Versions, coinbase_tx_value_remaining : {1}]

\* coinbase_reward_outputs, by the sum of their values in the same units
RewardOutputs == {1, 2}

SetNewPrevHashMessages ==
    {[template_id |-> id, prev_hash |-> tip.prev_hash,
      header_timestamp |-> tip.header_timestamp, n_bits |-> tip.n_bits,
      target |-> "000377ae"] :
        id \in 1 .. MaxTemplateId, tip \in Tips}

(* ChainTip::new *)
ChainTipNew(prev_hash, n_bits, header_timestamp) ==
    [prev_hash |-> prev_hash, nbits |-> n_bits, header_timestamp |-> header_timestamp]

----------------------------------------------------------------------------
(* JobFactory *)

\* the merkle root commits to the coinbase (template, extranonce prefix,
\* reward outputs) and the template's merkle path
MerkleRoot(template, prefix, outputs) ==
    <<template.template_id, template.version, prefix, outputs>>

\* JobFactory::new_standard_job fails when the outputs exceed the template's value
new_standard_job_fails(template, outputs) ==
    outputs > template.coinbase_tx_value_remaining

\* the job JobFactory::new_standard_job builds; tip is an Option<ChainTip>
new_standard_job(job_id, tip, prefix, template, outputs) ==
    [job_id |-> job_id,
     template |-> template,
     extranonce_prefix |-> prefix,
     coinbase_outputs |-> outputs,
     merkle_root |-> MerkleRoot(template, prefix, outputs),
     version |-> template.version,
     min_ntime |-> IF IsSome(tip) THEN Some(Unwrap(tip).header_timestamp) ELSE None]

(* StandardJob::activate *)
activate(job, header_timestamp) == [job EXCEPT !.min_ntime = Some(header_timestamp)]

----------------------------------------------------------------------------
(* JobStore *)

add_future_job(template_id, job) ==
    /\ future_jobs' = MapInsert(future_jobs, job.job_id, job)
    /\ future_template_to_job_id' = MapInsert(future_template_to_job_id, template_id, job.job_id)
    /\ UNCHANGED <<active_job, past_jobs, stale_jobs>>

\* as add_active_job, with past holding nothing but the job that was active
add_active_job_forgetting_past(job) ==
    /\ past_jobs' = IF IsSome(active_job)
                    THEN MapInsert(EmptyMap, Unwrap(active_job).job_id, Unwrap(active_job))
                    ELSE EmptyMap
    /\ active_job' = Some(job)
    /\ UNCHANGED <<future_jobs, future_template_to_job_id, stale_jobs>>

add_active_job(job) ==
    /\ past_jobs' = IF IsSome(active_job)
                    THEN MapInsert(past_jobs, Unwrap(active_job).job_id, Unwrap(active_job))
                    ELSE past_jobs
    /\ active_job' = Some(job)
    /\ UNCHANGED <<future_jobs, future_template_to_job_id, stale_jobs>>

\* the jobs that are active or past, by job_id
ActiveAndPast ==
    IF IsSome(active_job)
    THEN MapInsert(past_jobs, Unwrap(active_job).job_id, Unwrap(active_job))
    ELSE past_jobs

\* activate_future_job finds a job for template_id
activate_future_job_finds(template_id) ==
    /\ template_id \in DOMAIN future_template_to_job_id
    /\ future_template_to_job_id[template_id] \in DOMAIN future_jobs

\* activate_future_job: no job for template_id, nothing changes
activate_future_job(template_id, header_timestamp) ==
    IF activate_future_job_finds(template_id)
    THEN LET id == future_template_to_job_id[template_id]
         IN  /\ future_jobs' = MapRemove(future_jobs, id)
             /\ future_template_to_job_id' = MapRemove(future_template_to_job_id, template_id)
             /\ stale_jobs' = ActiveAndPast
             /\ past_jobs' = EmptyMap
             /\ active_job' = Some(activate(future_jobs[id], header_timestamp))
    ELSE UNCHANGED storeVars

----------------------------------------------------------------------------
(* StandardChannel::on_new_template, the arm of a future template *)

\* as on_new_template_future, but the job is built with the channel's chain tip
on_new_template_future_with_tip(template, outputs) ==
    LET args == [template |-> template, coinbase_reward_outputs |-> outputs]
    IN  IF new_standard_job_fails(template, outputs)
        THEN /\ Returns("on_new_template", args, "JobFactoryError")
             /\ UNCHANGED <<next_job_id, storeVars>>
        ELSE /\ next_job_id' = next_job_id + 1
             /\ add_future_job(template.template_id,
                    new_standard_job(next_job_id, chain_tip, extranonce_prefix,
                                     template, outputs))
             /\ Returns("on_new_template", args, "Ok")

\* as on_new_template_future, but the job is also made the active job
on_new_template_future_and_active(template, outputs) ==
    LET args == [template |-> template, coinbase_reward_outputs |-> outputs]
        new_job == new_standard_job(next_job_id, None, extranonce_prefix, template, outputs)
    IN  IF new_standard_job_fails(template, outputs)
        THEN /\ Returns("on_new_template", args, "JobFactoryError")
             /\ UNCHANGED <<next_job_id, storeVars>>
        ELSE /\ next_job_id' = next_job_id + 1
             /\ future_jobs' = MapInsert(future_jobs, new_job.job_id, new_job)
             /\ future_template_to_job_id' =
                    MapInsert(future_template_to_job_id, template.template_id, new_job.job_id)
             /\ past_jobs' = ActiveAndPast
             /\ active_job' = Some(new_job)
             /\ UNCHANGED stale_jobs
             /\ Returns("on_new_template", args, "Ok")

on_new_template_future(template, outputs) ==
    LET args == [template |-> template, coinbase_reward_outputs |-> outputs]
    IN  IF new_standard_job_fails(template, outputs)
        THEN /\ Returns("on_new_template", args, "JobFactoryError")
             /\ UNCHANGED <<next_job_id, storeVars>>
        ELSE /\ next_job_id' = next_job_id + 1
             /\ add_future_job(template.template_id,
                    new_standard_job(next_job_id, None, extranonce_prefix,
                                     template, outputs))
             /\ Returns("on_new_template", args, "Ok")

(* StandardChannel::on_new_template, the arm of a non-future template *)

\* as on_new_template_non_future, but the job is built without the chain tip
on_new_template_non_future_without_tip(template, outputs) ==
    LET args == [template |-> template, coinbase_reward_outputs |-> outputs]
    IN  IF new_standard_job_fails(template, outputs)
        THEN /\ Returns("on_new_template", args, "JobFactoryError")
             /\ UNCHANGED <<next_job_id, storeVars>>
        ELSE /\ next_job_id' = next_job_id + 1
             /\ add_active_job(
                    new_standard_job(next_job_id, None, extranonce_prefix,
                                     template, outputs))
             /\ Returns("on_new_template", args, "Ok")

\* as on_new_template_non_future, but a template refused for want of a chain
\* tip uses up a job_id
on_new_template_non_future_consuming_id(template, outputs) ==
    LET args == [template |-> template, coinbase_reward_outputs |-> outputs]
    IN  IF chain_tip = None
        THEN /\ Returns("on_new_template", args, "ChainTipNotSet")
             /\ next_job_id' = next_job_id + 1
             /\ UNCHANGED storeVars
        ELSE IF new_standard_job_fails(template, outputs)
        THEN /\ Returns("on_new_template", args, "JobFactoryError")
             /\ UNCHANGED <<next_job_id, storeVars>>
        ELSE /\ next_job_id' = next_job_id + 1
             /\ add_active_job(
                    new_standard_job(next_job_id, chain_tip, extranonce_prefix,
                                     template, outputs))
             /\ Returns("on_new_template", args, "Ok")

on_new_template_non_future(template, outputs) ==
    LET args == [template |-> template, coinbase_reward_outputs |-> outputs]
    IN  IF chain_tip = None
        THEN /\ Returns("on_new_template", args, "ChainTipNotSet")
             /\ UNCHANGED <<next_job_id, storeVars>>
        ELSE IF new_standard_job_fails(template, outputs)
        THEN /\ Returns("on_new_template", args, "JobFactoryError")
             /\ UNCHANGED <<next_job_id, storeVars>>
        ELSE /\ next_job_id' = next_job_id + 1
             /\ add_active_job(
                    new_standard_job(next_job_id, chain_tip, extranonce_prefix,
                                     template, outputs))
             /\ Returns("on_new_template", args, "Ok")

(* StandardChannel::on_new_template *)
on_new_template(template, outputs) ==
    /\ constructed
    /\ next_job_id <= MaxJobs
    /\ IF template.future_template
       THEN on_new_template_future(template, outputs)
       ELSE on_new_template_non_future(template, outputs)
    /\ UNCHANGED <<constructed, cfgVars, share_accounting, chain_tip>>

\* as on_set_new_prev_hash, without the look at the future jobs
on_set_new_prev_hash_unguarded(set_new_prev_hash) ==
    /\ constructed
    /\ activate_future_job(set_new_prev_hash.template_id,
                           set_new_prev_hash.header_timestamp)
    /\ chain_tip' = Some(ChainTipNew(set_new_prev_hash.prev_hash,
                                     set_new_prev_hash.n_bits,
                                     set_new_prev_hash.header_timestamp))
    /\ Returns("on_set_new_prev_hash", set_new_prev_hash, "Ok")
    /\ UNCHANGED <<constructed, cfgVars, share_accounting, next_job_id>>

\* as on_set_new_prev_hash, but the chain tip is replaced although the call is
\* refused
on_set_new_prev_hash_storing_refused(set_new_prev_hash) ==
    /\ constructed
    /\ chain_tip' = Some(ChainTipNew(set_new_prev_hash.prev_hash,
                                     set_new_prev_hash.n_bits,
                                     set_new_prev_hash.header_timestamp))
    /\ IF DOMAIN future_jobs = {}
       THEN /\ Returns("on_set_new_prev_hash", set_new_prev_hash, "TemplateIdNotFound")
            /\ UNCHANGED storeVars
       ELSE /\ activate_future_job(set_new_prev_hash.template_id,
                                   set_new_prev_hash.header_timestamp)
            /\ Returns("on_set_new_prev_hash", set_new_prev_hash, "Ok")
    /\ UNCHANGED <<constructed, cfgVars, share_accounting, next_job_id>>

\* as on_set_new_prev_hash, but the job is activated and the chain tip stays
\* as it was
on_set_new_prev_hash_keeping_tip(set_new_prev_hash) ==
    /\ constructed
    /\ IF DOMAIN future_jobs = {}
       THEN /\ Returns("on_set_new_prev_hash", set_new_prev_hash, "TemplateIdNotFound")
            /\ UNCHANGED storeVars
       ELSE /\ activate_future_job(set_new_prev_hash.template_id,
                                   set_new_prev_hash.header_timestamp)
            /\ Returns("on_set_new_prev_hash", set_new_prev_hash, "Ok")
    /\ UNCHANGED <<constructed, cfgVars, share_accounting, next_job_id, chain_tip>>

(* StandardChannel::on_set_new_prev_hash *)
on_set_new_prev_hash(set_new_prev_hash) ==
    /\ constructed
    /\ IF DOMAIN future_jobs = {}
       THEN /\ Returns("on_set_new_prev_hash", set_new_prev_hash, "TemplateIdNotFound")
            /\ UNCHANGED <<storeVars, chain_tip>>
       ELSE \* the outcome of activate_future_job is not looked at
            /\ activate_future_job(set_new_prev_hash.template_id,
                                   set_new_prev_hash.header_timestamp)
            /\ chain_tip' = Some(ChainTipNew(set_new_prev_hash.prev_hash,
                                             set_new_prev_hash.n_bits,
                                             set_new_prev_hash.header_timestamp))
            /\ Returns("on_set_new_prev_hash", set_new_prev_hash, "Ok")
    /\ UNCHANGED <<constructed, cfgVars, share_accounting, next_job_id>>

----------------------------------------------------------------------------
(* ShareAccounting: the operations on a ShareAccounting value sa *)

\* as is_share_seen, with no hash ever seen
is_share_seen_never(sa, hash) == FALSE

is_share_seen(sa, hash) == hash \in sa.seen_shares

update_share_accounting(sa, difficulty, sequence_number, hash) ==
    [sa EXCEPT !.seen_shares = @ \cup {hash},
               !.shares_accepted = @ + 1,
               !.share_work_sum = @ + difficulty,
               !.last_sequence_number = sequence_number]

\* monotone-max update
update_best_diff(sa, diff) ==
    [sa EXCEPT !.best_diff = IF diff > @ THEN diff ELSE @]

\* as should_acknowledge, looking at the count before the next share
should_acknowledge_early(sa) ==
    (sa.shares_accepted + 1) % sa.batch_size = 0 /\ sa.shares_accepted > 0

should_acknowledge(sa) ==
    sa.shares_accepted % sa.batch_size = 0 /\ sa.shares_accepted > 0

----------------------------------------------------------------------------
(* Difficulty, network target and header hash *)

\* the Bitcoin difficulty-1 target, 0xffff * 2^208 in the program; the model
\* keeps it a power of two below the largest target
DifficultyOneTarget == 2^(TargetBits - 2)

\* target_to_difficulty: difficulty_1_target / T, a float in the program; the
\* model keeps its integer part, and the float's infinity is the largest value
target_to_difficulty(t) ==
    IF t = 0 THEN DifficultyOneTarget * 2 ELSE DifficultyOneTarget \div t

\* BitcoinTarget::from_compact(nbits): mantissa * 256^(exponent - 3), of which
\* the model keeps the top TargetBits bits of the 256
from_compact(nbits) ==
    LET exponent == nbits \div 2^24
        mantissa == nbits % 2^24
        shift == (256 - TargetBits) - 8 * (exponent - 3)
    IN  IF mantissa > 8388607 \/ shift >= 24
        THEN 0
        ELSE IF shift >= 0 THEN mantissa \div 2^shift ELSE mantissa * 2^(0 - shift)

\* as Header, with the share's channel_id where its version belongs
Header_with_channel_id(share, tip, job) ==
    [version |-> share.channel_id,
     prev_blockhash |-> tip.prev_hash,
     merkle_root |-> job.merkle_root,
     time |-> share.ntime,
     bits |-> tip.nbits,
     nonce |-> share.nonce]

\* the block header validate_share builds from the share, the chain tip and the job
Header(share, tip, job) ==
    [version |-> share.version,
     prev_blockhash |-> tip.prev_hash,
     merkle_root |-> job.merkle_root,
     time |-> share.ntime,
     bits |-> tip.nbits,
     nonce |-> share.nonce]

\* Header::block_hash: a digest of the whole header.  The model keeps the
\* header as the digest's identity (two headers never collide) and reads the
\* digest's numeric value off the nonce
block_hash(header) == [of |-> header, value |-> header.nonce % 2^TargetBits]

\* as is_met_by, with an exclusive comparison
is_met_by_strictly(network_target, hash) == hash.value < network_target

\* bitcoin::Target::is_met_by
is_met_by(network_target, hash) == hash.value <= network_target

\* Transaction::consensus_encode into a Vec<u8>: the encoder only hands on the
\* errors of its writer, and writing to a Vec never fails
consensus_encode_fails(job) == FALSE

\* the coinbase transaction validate_share rebuilds from the job and serializes
SerializedCoinbase(job) ==
    [script_sig |-> <<job.template.template_id, job.extranonce_prefix>>,
     template_id |-> job.template.template_id,
     output |-> job.coinbase_outputs]

----------------------------------------------------------------------------
(* StandardChannel::validate_share *)

\* as resolve_job, with a future job resolving like a past one
resolve_job_with_future(share) ==
    LET is_active_job == IsSome(active_job) /\ Unwrap(active_job).job_id = share.job_id
        is_past_job == share.job_id \in DOMAIN past_jobs \cup DOMAIN future_jobs
        is_stale_job == share.job_id \in DOMAIN stale_jobs
    IN  IF is_stale_job THEN <<"Stale">>
        ELSE IF ~is_active_job /\ ~is_past_job /\ ~is_stale_job THEN <<"InvalidJobId">>
        ELSE IF is_active_job THEN <<"Ok", Unwrap(active_job)>>
        ELSE IF share.job_id \in DOMAIN past_jobs THEN <<"Ok", past_jobs[share.job_id]>>
        ELSE <<"Ok", future_jobs[share.job_id]>>

\* the job a share resolves to: Ok(job) is <<"Ok", job>>, an error is <<error>>
resolve_job(share) ==
    LET is_active_job == IsSome(active_job) /\ Unwrap(active_job).job_id = share.job_id
        is_past_job == share.job_id \in DOMAIN past_jobs
        is_stale_job == share.job_id \in DOMAIN stale_jobs
    IN  IF is_stale_job THEN <<"Stale">>
        ELSE IF ~is_active_job /\ ~is_past_job /\ ~is_stale_job THEN <<"InvalidJobId">>
        ELSE IF is_active_job THEN <<"Ok", Unwrap(active_job)>>
        ELSE <<"Ok", past_jobs[share.job_id]>>

\* the difficulty a share is counted with
ShareDifficulty == target_to_difficulty(target)

\* as block_found, with the duplicate check of the channel-target branch
block_found_checking_duplicates(share, job, hash) ==
    IF is_share_seen(share_accounting, hash)
    THEN /\ Returns("validate_share", share, "DuplicateShare")
         /\ UNCHANGED share_accounting
    ELSE /\ share_accounting' = update_share_accounting(share_accounting, ShareDifficulty,
                                                      share.sequence_number, hash)
         /\ ReturnsWith("validate_share", share, "BlockFound",
                        [template_id |-> Some(job.template.template_id),
                         coinbase |-> SerializedCoinbase(job)])

\* as block_found, with the coinbase built from the prefix the channel has now
block_found_with_current_prefix(share, job, hash) ==
    /\ share_accounting' = update_share_accounting(share_accounting, ShareDifficulty,
                                                 share.sequence_number, hash)
    /\ ReturnsWith("validate_share", share, "BlockFound",
                   [template_id |-> Some(job.template.template_id),
                    coinbase |-> SerializedCoinbase(
                                     [job EXCEPT !.extranonce_prefix = extranonce_prefix])])

\* the branch of a hash that meets the network target: the share is counted
\* first, the coinbase is encoded after
block_found(share, job, hash) ==
    /\ share_accounting' = update_share_accounting(share_accounting, ShareDifficulty,
                                                 share.sequence_number, hash)
    /\ IF consensus_encode_fails(job)
       THEN Returns("validate_share", share, "InvalidCoinbase")
       ELSE ReturnsWith("validate_share", share, "BlockFound",
                        [template_id |-> Some(job.template.template_id),
                         coinbase |-> SerializedCoinbase(job)])

\* as valid_verdict, with no batch ever acknowledged
valid_verdict_never_acknowledging(share, sa) ==
    Returns("validate_share", share, "Valid")

\* what validate_share returns for a share it has counted into sa
valid_verdict(share, sa) ==
    IF should_acknowledge(sa)
    THEN ReturnsWith("validate_share", share, "ValidWithAcknowledgement",
                     [last_sequence_number |-> sa.last_sequence_number,
                      shares_accepted |-> sa.shares_accepted,
                      share_work_sum |-> sa.share_work_sum])
    ELSE Returns("validate_share", share, "Valid")

\* as meets_channel_target, with a duplicate counted before it is refused
meets_channel_target_counting_duplicates(share, hash) ==
    LET counted == update_share_accounting(share_accounting, ShareDifficulty,
                                           share.sequence_number, hash)
        sa == update_best_diff(counted, target_to_difficulty(hash.value))
    IN  IF is_share_seen(share_accounting, hash)
        THEN /\ Returns("validate_share", share, "DuplicateShare")
             /\ share_accounting' = counted
        ELSE /\ share_accounting' = sa
             /\ valid_verdict(share, sa)

\* as meets_channel_target, without the duplicate check
meets_channel_target_without_duplicate_check(share, hash) ==
    LET counted == update_share_accounting(share_accounting, ShareDifficulty,
                                           share.sequence_number, hash)
        sa == update_best_diff(counted, target_to_difficulty(hash.value))
    IN  /\ share_accounting' = sa
        /\ valid_verdict(share, sa)

\* the branch of a hash that meets the channel target only
meets_channel_target(share, hash) ==
    IF is_share_seen(share_accounting, hash)
    THEN /\ Returns("validate_share", share, "DuplicateShare")
         /\ UNCHANGED share_accounting
    ELSE LET counted == update_share_accounting(share_accounting, ShareDifficulty,
                                                share.sequence_number, hash)
             sa == update_best_diff(counted, target_to_difficulty(hash.value))
         IN  /\ share_accounting' = sa
             /\ valid_verdict(share, sa)

\* as validate_share, with the sequence number stored before the targets are
\* looked at
validate_share_storing_sequence_number(share) ==
    LET resolved == resolve_job(share)
        job == resolved[2]
        tip == Unwrap(chain_tip)
        hash == block_hash(Header(share, tip, job))
        network_target == from_compact(tip.nbits)
    IN  /\ constructed
        /\ IF resolved[1] # "Ok"
           THEN /\ Returns("validate_share", share, resolved[1])
                /\ UNCHANGED share_accounting
           ELSE IF chain_tip = None
           THEN /\ Returns("validate_share", share, "NoChainTip")
                /\ UNCHANGED share_accounting
           ELSE IF is_met_by(network_target, hash)
           THEN block_found(share, job, hash)
           ELSE IF TargetLe(hash.value, target)
           THEN meets_channel_target(share, hash)
           ELSE /\ Returns("validate_share", share, "DoesNotMeetTarget")
                /\ share_accounting' =
                       [share_accounting EXCEPT !.last_sequence_number = share.sequence_number]
        /\ UNCHANGED <<constructed, cfgVars, jobVars>>

validate_share(share) ==
    LET resolved == resolve_job(share)
        job == resolved[2]
        tip == Unwrap(chain_tip)
        hash == block_hash(Header(share, tip, job))
        network_target == from_compact(tip.nbits)
    IN  /\ constructed
        /\ IF resolved[1] # "Ok"
           THEN /\ Returns("validate_share", share, resolved[1])
                /\ UNCHANGED share_accounting
           ELSE IF chain_tip = None
           THEN /\ Returns("validate_share", share, "NoChainTip")
                /\ UNCHANGED share_accounting
           ELSE IF is_met_by(network_target, hash)
           THEN block_found(share, job, hash)
           ELSE IF TargetLe(hash.value, target)
           THEN meets_channel_target(share, hash)
           ELSE /\ Returns("validate_share", share, "DoesNotMeetTarget")
                /\ UNCHANGED share_accounting
        /\ UNCHANGED <<constructed, cfgVars, jobVars>>

----------------------------------------------------------------------------
(* The channel's configuration: construction and the configuration calls *)

New ==
    /\ \E prefix \in ExtranoncePrefixes,
          max_target \in Targets, hashrate \in Hashrates, s \in SharesPerMinute :
           new(prefix, max_target, hashrate, BatchSize, s)
    /\ UNCHANGED noiseVars

SetExtranoncePrefix ==
    /\ \E prefix \in ExtranoncePrefixes : set_extranonce_prefix(prefix)
    /\ UNCHANGED noiseVars

SetTarget ==
    /\ \E t \in {0, MaxTargetValue} : set_target(t)
    /\ UNCHANGED noiseVars

SetNominalHashrate ==
    /\ \E hashrate \in {0, MaxHashrate} : set_nominal_hashrate(hashrate)
    /\ UNCHANGED noiseVars

UpdateChannel ==
    /\ \E hashrate \in Hashrates, max_arg \in {None} \cup {Some(t) : t \in Targets} :
           update_channel(hashrate, max_arg)
    /\ UNCHANGED noiseVars

Next ==
    \/ New
    \/ SetExtranoncePrefix
    \/ SetTarget
    \/ SetNominalHashrate
    \/ UpdateChannel

Spec == Init /\ [][Next]_vars

----------------------------------------------------------------------------
(* The job lifecycle: a channel, its templates and its chain tips *)

NewForJobs ==
    /\ \E prefix \in {p \in ExtranoncePrefixes : p.bytes = "a" /\ p.len = MAX_EXTRANONCE_LEN} :
           new(prefix, MaxTargetValue, MaxHashrate, BatchSize, MaxSharesPerMinute)
    /\ UNCHANGED noiseVars

OnNewTemplate ==
    /\ \E template \in Templates, outputs \in RewardOutputs : on_new_template(template, outputs)
    /\ UNCHANGED noiseVars

OnSetNewPrevHash ==
    /\ \E set_new_prev_hash \in SetNewPrevHashMessages : on_set_new_prev_hash(set_new_prev_hash)
    /\ UNCHANGED noiseVars

NextJobs ==
    \/ NewForJobs
    \/ OnNewTemplate
    \/ OnSetNewPrevHash

SpecJobs == Init /\ [][NextJobs]_vars

----------------------------------------------------------------------------
(* Share validation: a channel, its jobs, its chain tips and the shares
   submitted to it *)

\* the target of the channel NewForJobs builds
ChannelTarget == Unwrap(hash_rate_to_target(MaxHashrate, MaxSharesPerMinute))

\* nonces by the hash they lead to: at and next to the network target of the
\* first tip (0), at and next to the channel target, and above the network
\* target of the second tip
Nonces == {0, 1, ChannelTarget, ChannelTarget + 1, 2^(TargetBits - 1)}

\* SubmitSharesStandard messages.  A miner numbers its shares as it finds
\* them, so each nonce comes with a sequence_number of its own; the ntime is
\* the one of the tests, between the header timestamps of the two tips
SubmittedShares ==
    {[channel_id |-> 1, sequence_number |-> nonce + 1, job_id |-> job_id,
      nonce |-> nonce, ntime |-> 1745596932, version |-> version] :
        job_id \in 1 .. MaxJobs, nonce \in Nonces, version \in Versions}

OnNewTemplateForShares ==
    /\ \E template \in {t \in Templates : t.template_id = 1} : on_new_template(template, 1)
    /\ UNCHANGED noiseVars

OnSetNewPrevHashForShares ==
    /\ \E set_new_prev_hash \in {m \in SetNewPrevHashMessages : m.template_id = 1} :
           on_set_new_prev_hash(set_new_prev_hash)
    /\ UNCHANGED noiseVars

ValidateShare ==
    /\ share_accounting.shares_accepted < BatchSize
    /\ \E share \in SubmittedShares : validate_share(share)
    /\ UNCHANGED noiseVars

NextShares ==
    \/ NewForJobs
    \/ OnNewTemplateForShares
    \/ OnSetNewPrevHashForShares
    \/ ValidateShare

SpecShares == Init /\ [][NextShares]_vars

----------------------------------------------------------------------------
(* The whole channel: every public operation of StandardChannel on one
   channel, so that each may come between any two of the others *)

\* the target field of a SetNewPrevHash: the one of the tests, and another
SetNewPrevHashTargets == {"000377ae", "7fffff00"}

\* the SetNewPrevHash messages for the template the channel is given, with
\* either target
ChannelPrevHashMessages ==
    {[template_id |-> 1, prev_hash |-> tip.prev_hash,
      header_timestamp |-> tip.header_timestamp, n_bits |-> tip.n_bits,
      target |-> t] :
        tip \in Tips, t \in SetNewPrevHashTargets}

\* the shares submitted: for this channel (1) and for another (2), with a
\* nonce that leads to a block under either tip (0) and one that does so under
\* the second tip only (1)
ChannelShares ==
    {[channel_id |-> c, sequence_number |-> nonce + 1, job_id |-> job_id,
      nonce |-> nonce, ntime |-> 1745596932, version |-> version] :
        c \in {1, 2}, job_id \in 1 .. MaxChannelJobs, nonce \in {0, 1}, version \in Versions}

\* the prefix set on the channel later: other bytes, of the largest length
LaterExtranoncePrefixes ==
    {p \in ExtranoncePrefixes : p.bytes = "b" /\ p.len = MAX_EXTRANONCE_LEN}

OnNewTemplateForChannel ==
    /\ next_job_id <= MaxChannelJobs
    /\ \E template \in {t \in Templates : t.template_id = 1} : on_new_template(template, 1)
    /\ UNCHANGED noiseVars

OnSetNewPrevHashForChannel ==
    /\ \E set_new_prev_hash \in ChannelPrevHashMessages :
           on_set_new_prev_hash(set_new_prev_hash)
    /\ UNCHANGED noiseVars

\* once MaxChannelShares shares are counted, a share that was sent before may
\* be sent once more
ValidateShareForChannel ==
    /\ share_accounting.shares_accepted <= MaxChannelShares
    /\ \E share \in ChannelShares :
           /\ \/ share_accounting.shares_accepted < MaxChannelShares
              \/ \E hash \in share_accounting.seen_shares : hash.of.nonce = share.nonce
           /\ validate_share(share)
    /\ UNCHANGED noiseVars

UpdateChannelForChannel ==
    /\ \E hashrate \in {1} : update_channel(hashrate, None)
    /\ UNCHANGED noiseVars

SetExtranoncePrefixForChannel ==
    /\ \E prefix \in LaterExtranoncePrefixes : set_extranonce_prefix(prefix)
    /\ UNCHANGED noiseVars

NextChannel ==
    \/ NewForJobs
    \/ OnNewTemplateForChannel
    \/ OnSetNewPrevHashForChannel
    \/ ValidateShareForChannel
    \/ UpdateChannelForChannel
    \/ SetExtranoncePrefixForChannel

SpecChannel == Init /\ [][NextChannel]_vars

----------------------------------------------------------------------------
(* The Noise NX responder (noise-sv2/src/responder.rs).                    *)
(* A secret key is a small number, 0 being no valid key.  A hash, a key or  *)
(* a signature is the term that names how it was computed.  A buffer is a   *)
(* record of its bytes, each byte a tuple that names where it comes from,   *)
(* and of the term its content stands for.                                  *)

\* a u32 of seconds, TimeBits wide in the model
MaxTime == 2^TimeBits - 1

\* Keypair::public_key and its ElligatorSwift encoding
PublicKey(secret) == <<"pub", secret>>
ElligatorSwiftOf(name, public) ==
    [name |-> name,
     bytes |-> [i \in 1 .. ELLSWIFT_ENCODING_SIZE |-> <<name, i>>],
     term |-> <<"ellswift", public>>]

\* ElligatorSwift::shared_secret(theirs, ours, our secret key, party B)
shared_secret(theirs, ours, secret) == <<"ecdh", theirs, ours, secret>>

\* the empty buffer, vec![]
EmptyBuffer == [name |-> "empty", bytes |-> <<>>, term |-> <<"empty">>]

\* dst[lo..hi].copy_from_slice(src), which panics unless src is hi - lo long
copy_from_slice_fits(dst, lo, hi, src) ==
    lo <= hi /\ hi <= Len(dst) /\ Len(src) = hi - lo

\* as copy_from_slice, one byte further on
copy_from_slice_shifted(dst, lo, hi, src) ==
    [i \in 1 .. Len(dst) |-> IF lo + 1 < i /\ i <= hi + 1 THEN src[i - lo - 1] ELSE dst[i]]

copy_from_slice(dst, lo, hi, src) ==
    [i \in 1 .. Len(dst) |-> IF lo < i /\ i <= hi THEN src[i - lo] ELSE dst[i]]

\* &v[..n], which panics unless n <= v.len()
SliceTo(v, n) == SubSeq(v, 1, n)

(* HandshakeOp and CipherState, on a Responder value r *)

\* h <- SHA256(h || data)
mix_hash(r, data) == [r EXCEPT !.h = <<"SHA256", @, data>>]

\* (ck, temp_k) = HKDF(ck, data, 2); temp_k becomes the key, n = 0
hkdf_2(ck, data) == <<<<"HKDF", 1, ck, data>>, <<"HKDF", 2, ck, data>>>>
\* as set_k, but a key once installed stays
set_k_keeping_installed(r, k) == IF IsSome(r.k) THEN r ELSE [r EXCEPT !.k = k]

\* CipherState for Responder: set_k and set_n store what they are given
set_k(r, k) == [r EXCEPT !.k = k]
set_n(r, n) == [r EXCEPT !.n = n]

mix_key(r, data) ==
    LET pair == hkdf_2(r.ck, data)
    IN  set_n(set_k([r EXCEPT !.ck = pair[1], !.handshake_cipher = Some(pair[2])],
                    Some(pair[2])), 0)

\* the buffer encrypt_and_hash leaves: the encrypted bytes and a 16-byte MAC;
\* without a key the buffer stays as it is
encrypt_with_ad(r, buf) ==
    IF IsSome(r.k)
    THEN [name |-> buf.name,
          bytes |-> [i \in 1 .. Len(buf.bytes) |-> <<"enc", buf.bytes[i]>>]
                       \o [j \in 1 .. MAC_SIZE |-> <<"mac", buf.name, j>>],
          term |-> <<"AEAD", Unwrap(r.k), r.n, r.h, buf.term>>]
    ELSE buf

\* the responder after encrypt_and_hash(buf)
encrypt_and_hash(r, buf) ==
    mix_hash([r EXCEPT !.n = IF IsSome(r.k) THEN @ + 1 ELSE @], encrypt_with_ad(r, buf).term)

\* encrypt_and_hash encrypts in place in a Vec, which grows by the MAC; for
\* the buffers of the handshake, far below the cipher's length limit, it
\* does not fail
encrypt_and_hash_fails(r, buf) == FALSE

\* as decrypt_and_hash_fails, for a cipher that accepts a buffer without a MAC
decrypt_and_hash_accepting_empty(r, buf) == FALSE

\* decrypt_and_hash fails when there is a key and the buffer is too short to
\* hold a MAC
decrypt_and_hash_fails(r, buf) == IsSome(r.k) /\ Len(buf.bytes) < MAC_SIZE

\* the responder after a decrypt_and_hash(buf) without a key
decrypt_and_hash(r, buf) == mix_hash(r, buf.term)

\* Cipher::from_key_and_cipher and GenericCipher::erase_k
from_key_and_cipher(k) == [k |-> Some(k), cipher |-> k]
erase_k(c) == [c EXCEPT !.k = None]

(* Responder *)

\* initialize_self: h is the digest of the protocol name, ck = h
ProtocolNameDigest == <<"SHA256", "Noise_NX_secp256k1_ChaChaPoly_SHA256">>

\* Responder::new_with_rng; the rng yields the ephemeral and the static key
ResponderNew(a, cert_validity, e, s) ==
    [handshake_cipher |-> None, k |-> None, n |-> 0,
     ck |-> ProtocolNameDigest, h |-> ProtocolNameDigest,
     e |-> e, s |-> s, a |-> a, c1 |-> None, c2 |-> None,
     cert_validity |-> cert_validity]

(* Responder::new_with_rng *)
new_with_rng(a, cert_validity, e, s) ==
    /\ responder = None
    /\ responder' = Some(ResponderNew(a, cert_validity, e, s))
    /\ handshakes' = 0
    /\ UNCHANGED dropped
    /\ Returns("new_with_rng", [a |-> a, cert_validity |-> cert_validity], "Ok")
    /\ UNCHANGED channelVars

(* Responder::from_authority_kp_with_rng; cert_validity is a Duration, in
   seconds, of which `as u32` keeps the low bits *)
from_authority_kp_with_rng(public, private, cert_validity, e, s) ==
    LET args == [public |-> public, private |-> private, cert_validity |-> cert_validity]
    IN  /\ responder = None
        /\ IF private = 0
           THEN /\ Returns("from_authority_kp", args, "InvalidRawPrivateKey")
                /\ UNCHANGED noiseVars
           ELSE IF public # PublicKey(private)
           THEN /\ Returns("from_authority_kp", args, "InvalidRawPublicKey")
                /\ UNCHANGED noiseVars
           ELSE /\ responder' = Some(ResponderNew(private, cert_validity % 2^TimeBits, e, s))
                /\ handshakes' = 0
                /\ UNCHANGED dropped
                /\ Returns("from_authority_kp", args, "Ok")
        /\ UNCHANGED channelVars

\* Responder::get_signature: version, valid_from and not_valid_after in
\* little-endian bytes, then the signature by the authority key over them and
\* the static public key
get_signature(r, version, valid_from, not_valid_after) ==
    [name |-> "signature_noise_message",
     bytes |-> [i \in 1 .. SIGNATURE_NOISE_MESSAGE_SIZE |->
                   IF i <= 2 THEN <<"version", i>>
                   ELSE IF i <= 6 THEN <<"valid_from", i - 2>>
                   ELSE IF i <= 10 THEN <<"not_valid_after", i - 6>>
                   ELSE <<"signature", i - 10>>],
     term |-> <<"SignatureNoiseMessage", version, valid_from, not_valid_after,
                <<"sign", r.a, PublicKey(r.s), version, valid_from, not_valid_after>>>>]

\* the handshake message step_1 builds, given the buffers of its three parts
step_1_message(ephemeral, encrypted_static_pub_k, signature_part) ==
    LET zeroes == [i \in 1 .. INITIATOR_EXPECTED_HANDSHAKE_MESSAGE_SIZE |-> <<"zero">>]
        out1 == copy_from_slice(zeroes, 0, ELLSWIFT_ENCODING_SIZE,
                                SliceTo(ephemeral.bytes, ELLSWIFT_ENCODING_SIZE))
        out2 == copy_from_slice(out1, ELLSWIFT_ENCODING_SIZE,
                                ELLSWIFT_ENCODING_SIZE + ENCRYPTED_ELLSWIFT_ENCODING_SIZE,
                                SliceTo(encrypted_static_pub_k.bytes,
                                        ENCRYPTED_ELLSWIFT_ENCODING_SIZE))
    IN  copy_from_slice(out2, ELLSWIFT_ENCODING_SIZE + ENCRYPTED_ELLSWIFT_ENCODING_SIZE,
                        INITIATOR_EXPECTED_HANDSHAKE_MESSAGE_SIZE,
                        SliceTo(signature_part.bytes, ENCRYPTED_SIGNATURE_NOISE_MESSAGE_SIZE))

\* the slices step_1_message takes and copies are all in range
step_1_message_fits(ephemeral, encrypted_static_pub_k, signature_part) ==
    /\ Len(ephemeral.bytes) >= ELLSWIFT_ENCODING_SIZE
    /\ Len(encrypted_static_pub_k.bytes) >= ENCRYPTED_ELLSWIFT_ENCODING_SIZE
    /\ Len(signature_part.bytes) >= ENCRYPTED_SIGNATURE_NOISE_MESSAGE_SIZE
    /\ ELLSWIFT_ENCODING_SIZE + ENCRYPTED_ELLSWIFT_ENCODING_SIZE
          + ENCRYPTED_SIGNATURE_NOISE_MESSAGE_SIZE = INITIATOR_EXPECTED_HANDSHAKE_MESSAGE_SIZE

\* as step_1_codec, with the two ciphers in each other's place
step_1_codec_swapped(c1, c2) == [encryptor |-> erase_k(c1), decryptor |-> erase_k(c2)]

\* the NoiseCodec step_1 returns: encryptor = c2, decryptor = c1, each after
\* erase_k
step_1_codec(c1, c2) == [encryptor |-> erase_k(c2), decryptor |-> erase_k(c1)]

\* as step_1_with_now_rng, with the second mix_key made before the static key
\* is encrypted
step_1_with_now_rng_keyed_early(theirs, now, overflow_checks) ==
    LET args == [elligatorswift_theirs_ephemeral_serialized |-> theirs, now |-> now]
        r0 == Unwrap(responder)
        r1 == mix_hash(r0, theirs.term)
        r2 == decrypt_and_hash(r1, EmptyBuffer)
        ours_ephemeral == ElligatorSwiftOf("ephemeral", PublicKey(r0.e))
        r3 == mix_hash(r2, ours_ephemeral.term)
        r4 == mix_key(r3, shared_secret(theirs.term, ours_ephemeral.term, r0.e))
        ours_static == ElligatorSwiftOf("static", PublicKey(r0.s))
        r5 == mix_key(r4, shared_secret(theirs.term, ours_static.term, r0.s))
        encrypted_static_pub_k == encrypt_with_ad(r5, ours_static)
        r6 == encrypt_and_hash(r5, ours_static)
        sum == now + r0.cert_validity
        signature_noise_message == get_signature(r6, VERSION, now, sum % 2^TimeBits)
        signature_part == encrypt_with_ad(r6, signature_noise_message)
        r7 == encrypt_and_hash(r6, signature_noise_message)
        temp_k == hkdf_2(r7.ck, EmptyBuffer.term)
        c1 == from_key_and_cipher(temp_k[1])
        c2 == from_key_and_cipher(temp_k[2])
        r8 == [r7 EXCEPT !.c1 = None, !.c2 = None]
    IN  /\ IsSome(responder)
        /\ ~dropped
        /\ handshakes < MaxHandshakes
        /\ handshakes' = handshakes + 1
        /\ UNCHANGED dropped
        /\ IF decrypt_and_hash_fails(r1, EmptyBuffer)
           THEN /\ responder' = Some(r1)
                /\ Returns("step_1", args, "Err")
           ELSE IF encrypt_and_hash_fails(r4, ours_static)
           THEN /\ responder' = Some(r4)
                /\ Returns("step_1", args, "Err")
           ELSE IF sum > MaxTime /\ overflow_checks
           THEN /\ responder' = Some(r6)
                /\ Returns("step_1", args, "panic")
           ELSE IF encrypt_and_hash_fails(r6, signature_noise_message)
           THEN /\ responder' = Some(r6)
                /\ Returns("step_1", args, "Err")
           ELSE IF ~step_1_message_fits(ours_ephemeral, encrypted_static_pub_k, signature_part)
           THEN /\ responder' = Some(r7)
                /\ Returns("step_1", args, "panic")
           ELSE /\ responder' = Some(r8)
                /\ ReturnsWith("step_1", args, "Ok",
                               [out |-> step_1_message(ours_ephemeral, encrypted_static_pub_k,
                                                       signature_part),
                                codec |-> step_1_codec(c1, c2)])
        /\ UNCHANGED channelVars

(* Responder::step_1_with_now_rng.  overflow_checks is the build's setting:
   with it `now + self.cert_validity` panics on overflow, without it the sum
   wraps *)
step_1_with_now_rng(theirs, now, overflow_checks) ==
    LET args == [elligatorswift_theirs_ephemeral_serialized |-> theirs, now |-> now]
        r0 == Unwrap(responder)
        r1 == mix_hash(r0, theirs.term)
        r2 == decrypt_and_hash(r1, EmptyBuffer)
        ours_ephemeral == ElligatorSwiftOf("ephemeral", PublicKey(r0.e))
        r3 == mix_hash(r2, ours_ephemeral.term)
        r4 == mix_key(r3, shared_secret(theirs.term, ours_ephemeral.term, r0.e))
        ours_static == ElligatorSwiftOf("static", PublicKey(r0.s))
        encrypted_static_pub_k == encrypt_with_ad(r4, ours_static)
        r5 == encrypt_and_hash(r4, ours_static)
        r6 == mix_key(r5, shared_secret(theirs.term, ours_static.term, r0.s))
        sum == now + r0.cert_validity
        signature_noise_message == get_signature(r6, VERSION, now, sum % 2^TimeBits)
        signature_part == encrypt_with_ad(r6, signature_noise_message)
        r7 == encrypt_and_hash(r6, signature_noise_message)
        temp_k == hkdf_2(r7.ck, EmptyBuffer.term)
        c1 == from_key_and_cipher(temp_k[1])
        c2 == from_key_and_cipher(temp_k[2])
        r8 == [r7 EXCEPT !.c1 = None, !.c2 = None]
    IN  /\ IsSome(responder)
        /\ ~dropped
        /\ handshakes < MaxHandshakes
        /\ handshakes' = handshakes + 1
        /\ UNCHANGED dropped
        /\ IF decrypt_and_hash_fails(r1, EmptyBuffer)
           THEN /\ responder' = Some(r1)
                /\ Returns("step_1", args, "Err")
           ELSE IF encrypt_and_hash_fails(r4, ours_static)
           THEN /\ responder' = Some(r4)
                /\ Returns("step_1", args, "Err")
           ELSE IF sum > MaxTime /\ overflow_checks
           THEN /\ responder' = Some(r6)
                /\ Returns("step_1", args, "panic")
           ELSE IF encrypt_and_hash_fails(r6, signature_noise_message)
           THEN /\ responder' = Some(r6)
                /\ Returns("step_1", args, "Err")
           ELSE IF ~step_1_message_fits(ours_ephemeral, encrypted_static_pub_k, signature_part)
           THEN /\ responder' = Some(r7)
                /\ Returns("step_1", args, "panic")
           ELSE /\ responder' = Some(r8)
                /\ ReturnsWith("step_1", args, "Ok",
                               [out |-> step_1_message(ours_ephemeral, encrypted_static_pub_k,
                                                       signature_part),
                                codec |-> step_1_codec(c1, c2)])
        /\ UNCHANGED channelVars

----------------------------------------------------------------------------
(* The handshake: a responder is built and step_1 is called on it *)

AuthorityKeys == {1, 2}
EphemeralKeys == {3, 4}
StaticKeys == {5}
InitiatorKeys == {6, 7}

\* certificate validities: none, one second, the largest u32, and a Duration
\* of more seconds than a u32 holds
\* the value 32 zero bytes stand for, in k, ck and h
ZeroBytes == <<"zero">>

\* Keypair::non_secure_erase overwrites the key pair in place, with a volatile
\* write, by the library's fixed dummy key pair, which is not zero
non_secure_erase(keypair) == -1

(* Responder::erase, the fields after it: the bytes of k are zeroed in place
   and k stays Some; the loops over ck and h iterate the arrays by value, so
   they zero copies of the bytes and leave the fields as they were; c1 and c2
   are erased when present; e, s and a are overwritten with the dummy *)
erase(r) ==
    [r EXCEPT !.k = IF IsSome(r.k) THEN Some(ZeroBytes) ELSE None,
              !.c1 = IF IsSome(r.c1) THEN Some(erase_k(Unwrap(r.c1))) ELSE None,
              !.c2 = IF IsSome(r.c2) THEN Some(erase_k(Unwrap(r.c2))) ELSE None,
              !.e = non_secure_erase(r.e),
              !.s = non_secure_erase(r.s),
              !.a = non_secure_erase(r.a)]

(* Responder::erase, the writes it makes: which field each one is for, whether
   it is a volatile write, and whether it lands in the field itself or in a
   copy of its bytes *)
erase_writes(r) ==
    (IF IsSome(r.k) THEN {[field |-> "k", volatile |-> TRUE, in_place |-> TRUE]} ELSE {})
    \cup {[field |-> "ck", volatile |-> TRUE, in_place |-> FALSE],
          [field |-> "h", volatile |-> TRUE, in_place |-> FALSE]}
    \cup (IF IsSome(r.c1) THEN {[field |-> "c1", volatile |-> TRUE, in_place |-> TRUE]} ELSE {})
    \cup (IF IsSome(r.c2) THEN {[field |-> "c2", volatile |-> TRUE, in_place |-> TRUE]} ELSE {})
    \cup {[field |-> f, volatile |-> TRUE, in_place |-> TRUE] : f \in {"e", "s", "a"}}

(* Drop for Responder: erase runs once, on the responder as it then is *)
drop ==
    /\ IsSome(responder)
    /\ ~dropped
    /\ dropped' = TRUE
    /\ responder' = Some(erase(Unwrap(responder)))
    /\ ReturnsWith("drop", None, "Ok", erase_writes(Unwrap(responder)))
    /\ UNCHANGED <<handshakes, channelVars>>

CertValidities == {0, 1, MaxTime, MaxTime + 2}

Nows == {0, 1, MaxTime}

NewWithRng ==
    \E a \in AuthorityKeys, cert_validity \in CertValidities \cap (0 .. MaxTime),
       e \in EphemeralKeys, s \in StaticKeys :
        new_with_rng(a, cert_validity, e, s)

FromAuthorityKp ==
    \E public \in {PublicKey(a) : a \in AuthorityKeys}, private \in {0} \cup AuthorityKeys,
       cert_validity \in CertValidities, e \in EphemeralKeys, s \in StaticKeys :
        from_authority_kp_with_rng(public, private, cert_validity, e, s)

\* the ephemeral key encodings an initiator sends
InitiatorEphemerals == {ElligatorSwiftOf("theirs", PublicKey(key)) : key \in InitiatorKeys}

Step1 ==
    \E theirs \in InitiatorEphemerals, now \in Nows, overflow_checks \in BOOLEAN :
        step_1_with_now_rng(theirs, now, overflow_checks)

Drop == drop

NextNoise ==
    \/ NewWithRng
    \/ FromAuthorityKp
    \/ Step1
    \/ Drop

SpecNoise == Init /\ [][NextNoise]_vars

----------------------------------------------------------------------------
(* Configuration claims, checked under Spec *)

\* the step is a call of op
Calls(op) == lastOp' = op

\* the maximum an update_channel call with argument max_arg compares with
EffectiveMax(max_arg) == IF IsSome(max_arg) THEN Unwrap(max_arg) ELSE requested_max_target

\* C1: after a successful new and after every update_channel that returns
\* Ok, target <= requested_max_target.
C1_TargetWithinMaxAfterConfiguration ==
    (lastOp \in {"new", "update_channel"} /\ lastResult = "Ok")
        => target <= requested_max_target

\* an update_channel(h, None) has just succeeded and left the target equal to
\* the cached maximum
C1_Witness ==
    /\ lastOp = "update_channel"
    /\ lastResult = "Ok"
    /\ lastArgs.requested_max_target = None
    /\ target = requested_max_target
    /\ target < MaxTargetValue

\* C2: in every state after a successful configuration, whatever public
\* operations followed it (set_target, set_nominal_hashrate, ...),
\* target <= requested_max_target.
C2_TargetWithinMaxAlways == constructed => target <= requested_max_target

\* C3: update_channel is atomic: on an error target, nominal_hashrate and
\* requested_max_target are unchanged; on Ok the three are replaced by the
\* new target, the given hashrate and the effective maximum.
C3_UpdateChannelAtomic ==
    [][Calls("update_channel") =>
        IF lastResult' = "Ok"
        THEN /\ target' = Unwrap(hash_rate_to_target(lastArgs'.nominal_hashrate,
                                                     expected_share_per_minute))
             /\ nominal_hashrate' = lastArgs'.nominal_hashrate
             /\ requested_max_target' = EffectiveMax(lastArgs'.requested_max_target)
        ELSE /\ lastResult' \in {"InvalidNominalHashrate", "RequestedMaxTargetOutOfRange"}
             /\ UNCHANGED <<target, nominal_hashrate, requested_max_target>>]_vars

\* an update_channel has just failed on the maximum, and the channel holds
\* neither the hashrate nor the maximum of the call
C3_Witness ==
    /\ lastOp = "update_channel"
    /\ lastResult = "RequestedMaxTargetOutOfRange"
    /\ IsSome(lastArgs.requested_max_target)
    /\ Unwrap(lastArgs.requested_max_target) # requested_max_target
    /\ lastArgs.nominal_hashrate # nominal_hashrate
    /\ target <= requested_max_target

\* C4: new and update_channel return InvalidNominalHashrate when the
\* derivation of the target fails, and RequestedMaxTargetOutOfRange exactly
\* when it succeeds with a target strictly above the effective maximum; for
\* update_channel(_, None) the effective maximum is the cached one.
C4_ConfigurationErrors ==
    [][(Calls("new") \/ Calls("update_channel")) =>
        LET derived ==
                IF Calls("new")
                THEN hash_rate_to_target(lastArgs'.nominal_hashrate,
                                         lastArgs'.expected_share_per_minute)
                ELSE hash_rate_to_target(lastArgs'.nominal_hashrate,
                                         expected_share_per_minute)
            max == IF Calls("new")
                   THEN lastArgs'.requested_max_target
                   ELSE EffectiveMax(lastArgs'.requested_max_target)
        IN  /\ lastArgs'.nominal_hashrate <= 0 => derived = None
            /\ lastResult' = "InvalidNominalHashrate" <=> derived = None
            /\ lastResult' = "RequestedMaxTargetOutOfRange"
                   <=> (derived # None /\ Unwrap(derived) > max)
            /\ lastResult' = "Ok"
                   <=> (derived # None /\ Unwrap(derived) <= max)]_vars

\* an update_channel(h, None) has just been refused against the cached maximum
C4_Witness ==
    /\ lastOp = "update_channel"
    /\ lastResult = "RequestedMaxTargetOutOfRange"
    /\ lastArgs.requested_max_target = None
    /\ Unwrap(hash_rate_to_target(lastArgs.nominal_hashrate, expected_share_per_minute))
           = requested_max_target + 1

\* C19: set_extranonce_prefix replaces the channel's extranonce_prefix when
\* the new prefix has at most MAX_EXTRANONCE_LEN = 32 bytes, and fails with
\* NewExtranoncePrefixTooLarge when it has 33 or more, the stored prefix
\* staying as it was
C19_ExtranoncePrefixLength ==
    [][Calls("set_extranonce_prefix") =>
        LET prefix == lastArgs'.extranonce_prefix
        IN  /\ prefix.len <= 32
               => (lastResult' = "Ok" /\ extranonce_prefix' = prefix)
            /\ prefix.len >= 33
               => (lastResult' = "NewExtranoncePrefixTooLarge" /\ UNCHANGED extranonce_prefix)]_vars

\* a prefix of exactly 32 bytes was stored
C19_Witness ==
    /\ lastOp = "set_extranonce_prefix"
    /\ lastResult = "Ok"
    /\ lastArgs.extranonce_prefix.len = 32
    /\ extranonce_prefix = lastArgs.extranonce_prefix

----------------------------------------------------------------------------
(* Job lifecycle claims, checked under SpecJobs *)

\* the job_ids held by a collection of the job store
JobIds(jobs) == {jobs[k].job_id : k \in DOMAIN jobs}
ActiveJobIds == IF IsSome(active_job) THEN {Unwrap(active_job).job_id} ELSE {}

\* the template_ids of the jobs in the future collection
FutureTemplateIds == {future_jobs[k].template.template_id : k \in DOMAIN future_jobs}

\* C5: after every on_set_new_prev_hash that returns Ok, past is empty and
\* stale is exactly the jobs that were active or past before the call.
C5_SetNewPrevHashDemotes ==
    [][(Calls("on_set_new_prev_hash") /\ lastResult' = "Ok") =>
        /\ past_jobs' = EmptyMap
        /\ stale_jobs' = ActiveAndPast]_vars

\* C6: on_set_new_prev_hash with a template_id that matches no future job,
\* while there are future jobs, returns TemplateIdNotFound and leaves the
\* chain tip and the job store unchanged.
C6_UnknownTemplateIdRejected ==
    [][(/\ Calls("on_set_new_prev_hash")
        /\ DOMAIN future_jobs # {}
        /\ lastArgs'.template_id \notin FutureTemplateIds) =>
        /\ lastResult' = "TemplateIdNotFound"
        /\ UNCHANGED <<chain_tip, storeVars>>]_vars

\* C7: on_set_new_prev_hash with no future job returns TemplateIdNotFound
\* and leaves chain_tip, active, past and stale unchanged.
C7_NoFutureJobRejected ==
    [][(Calls("on_set_new_prev_hash") /\ DOMAIN future_jobs = {}) =>
        /\ lastResult' = "TemplateIdNotFound"
        /\ UNCHANGED <<chain_tip, active_job, past_jobs, stale_jobs>>]_vars

\* an on_set_new_prev_hash has just been refused by a channel that has a
\* chain tip, an active job and no future job
C7_Witness ==
    /\ lastOp = "on_set_new_prev_hash"
    /\ lastResult = "TemplateIdNotFound"
    /\ DOMAIN future_jobs = {}
    /\ IsSome(active_job)
    /\ IsSome(chain_tip)
    /\ Unwrap(chain_tip).prev_hash # lastArgs.prev_hash

\* C8: the job_ids of active, future, past and stale are pairwise disjoint.
C8_JobIdsDisjoint ==
    /\ ActiveJobIds \cap JobIds(future_jobs) = {}
    /\ ActiveJobIds \cap JobIds(past_jobs) = {}
    /\ ActiveJobIds \cap JobIds(stale_jobs) = {}
    /\ JobIds(future_jobs) \cap JobIds(past_jobs) = {}
    /\ JobIds(future_jobs) \cap JobIds(stale_jobs) = {}
    /\ JobIds(past_jobs) \cap JobIds(stale_jobs) = {}
    /\ Cardinality(JobIds(future_jobs)) = Cardinality(DOMAIN future_jobs)
    /\ Cardinality(JobIds(past_jobs)) = Cardinality(DOMAIN past_jobs)
    /\ Cardinality(JobIds(stale_jobs)) = Cardinality(DOMAIN stale_jobs)

\* the channel has created three jobs: one is the active job, one is still a
\* future job, one is stale
C8_Witness ==
    /\ IsSome(active_job)
    /\ DOMAIN future_jobs # {}
    /\ DOMAIN stale_jobs # {}
    /\ ActiveJobIds \cup JobIds(future_jobs) \cup JobIds(stale_jobs) = 1 .. 3

\* the job the channel created last
LastCreated == next_job_id - 1

\* C9: on_new_template with a future template puts the job in future with no
\* min_ntime and leaves the active job alone; a following
\* on_set_new_prev_hash with that template_id and header_timestamp t makes
\* that job (same job_id, merkle_root, version) active with min_ntime = Some(t).
C9_FutureJobActivation ==
    [][/\ (/\ Calls("on_new_template")
           /\ lastArgs'.template.future_template
           /\ lastResult' = "Ok") =>
            /\ active_job' = active_job
            /\ next_job_id \in DOMAIN future_jobs'
            /\ next_job_id \notin DOMAIN future_jobs
            /\ future_jobs'[next_job_id].job_id = next_job_id
            /\ future_jobs'[next_job_id].template = lastArgs'.template
            /\ future_jobs'[next_job_id].min_ntime = None
       /\ (/\ lastOp = "on_new_template"
           /\ lastArgs.template.future_template
           /\ lastResult = "Ok"
           /\ Calls("on_set_new_prev_hash")
           /\ lastArgs'.template_id = lastArgs.template.template_id) =>
            /\ lastResult' = "Ok"
            /\ IsSome(active_job')
            /\ Unwrap(active_job').job_id = future_jobs[LastCreated].job_id
            /\ Unwrap(active_job').merkle_root = future_jobs[LastCreated].merkle_root
            /\ Unwrap(active_job').version = future_jobs[LastCreated].version
            /\ Unwrap(active_job').min_ntime = Some(lastArgs'.header_timestamp)
            /\ LastCreated \notin DOMAIN future_jobs']_vars

\* the job created last came from a future template and has just been made
\* the active job, in place of an earlier active job, with the timestamp of
\* the message
C9_Witness ==
    /\ lastOp = "on_set_new_prev_hash"
    /\ lastResult = "Ok"
    /\ IsSome(active_job)
    /\ Unwrap(active_job).job_id = LastCreated
    /\ Unwrap(active_job).template.future_template
    /\ Unwrap(active_job).template.template_id = lastArgs.template_id
    /\ Unwrap(active_job).min_ntime = Some(lastArgs.header_timestamp)
    /\ DOMAIN stale_jobs # {}

\* C10: on_new_template with a non-future template returns ChainTipNotSet
\* when there is no chain tip, creating no job and changing no state; with a
\* chain tip it installs a new active job whose min_ntime is the chain tip's
\* header_timestamp.
C10_NonFutureTemplate ==
    [][(Calls("on_new_template") /\ ~lastArgs'.template.future_template) =>
        IF chain_tip = None
        THEN /\ lastResult' = "ChainTipNotSet"
             /\ UNCHANGED <<constructed, cfgVars, share_accounting, jobVars>>
        ELSE /\ lastResult' \in {"Ok", "JobFactoryError"}
             /\ lastResult' = "Ok" <=>
                    ~new_standard_job_fails(lastArgs'.template,
                                            lastArgs'.coinbase_reward_outputs)
             /\ lastResult' = "Ok" =>
                    /\ IsSome(active_job')
                    /\ Unwrap(active_job').job_id = next_job_id
                    /\ Unwrap(active_job').job_id \notin
                           ActiveJobIds \cup JobIds(future_jobs)
                               \cup JobIds(past_jobs) \cup JobIds(stale_jobs)
                    /\ Unwrap(active_job').template = lastArgs'.template
                    /\ Unwrap(active_job').min_ntime =
                           Some(Unwrap(chain_tip).header_timestamp)]_vars

\* a non-future template has just become the active job of a channel whose
\* chain tip carries the job's min_ntime
C10_Witness ==
    /\ lastOp = "on_new_template"
    /\ lastResult = "Ok"
    /\ ~lastArgs.template.future_template
    /\ IsSome(chain_tip)
    /\ IsSome(active_job)
    /\ Unwrap(active_job).job_id = LastCreated
    /\ Unwrap(active_job).min_ntime = Some(Unwrap(chain_tip).header_timestamp)
    /\ DOMAIN past_jobs # {}

----------------------------------------------------------------------------
(* Share validation claims, checked under SpecShares *)

\* the collections a job_id is in, by the job_id of the jobs they hold
IsActiveJob(job_id) == job_id \in ActiveJobIds
IsPastJob(job_id) == job_id \in JobIds(past_jobs)
IsStaleJob(job_id) == job_id \in JobIds(stale_jobs)
IsFutureJob(job_id) == job_id \in JobIds(future_jobs)

\* C11: validate_share resolves the job before anything else: a job_id in the
\* stale collection yields Stale; a job_id that is neither the active job nor
\* in past nor in stale (a job that is only in the future collection
\* included) yields InvalidJobId, with or without a chain tip; only an active
\* or past job gets any other verdict
C11_JobResolvedFirst ==
    [][Calls("validate_share") =>
        LET job_id == lastArgs'.job_id
        IN  /\ IsStaleJob(job_id) => lastResult' = "Stale"
            /\ (~IsActiveJob(job_id) /\ ~IsPastJob(job_id) /\ ~IsStaleJob(job_id))
                   => lastResult' = "InvalidJobId"
            /\ lastResult' \notin {"Stale", "InvalidJobId"}
                   => (IsActiveJob(job_id) \/ IsPastJob(job_id))]_vars

\* a share on a job that is only in the future collection was refused with
\* InvalidJobId while a chain tip was set and another job was stale
C11_Witness ==
    /\ lastOp = "validate_share"
    /\ lastResult = "InvalidJobId"
    /\ IsFutureJob(lastArgs.job_id)
    /\ IsSome(chain_tip)
    /\ stale_jobs # EmptyMap

\* the job the share of a validate_share step resolves to, and the hash of
\* the header the call builds, both read off the state before the call
SubmittedJob ==
    IF IsActiveJob(lastArgs'.job_id)
    THEN Unwrap(active_job)
    ELSE CHOOSE job \in {past_jobs[k] : k \in DOMAIN past_jobs} : job.job_id = lastArgs'.job_id
SubmittedHash == block_hash(Header(lastArgs', Unwrap(chain_tip), SubmittedJob))

\* C12: for every validate_share call that returns Valid or
\* ValidWithAcknowledgement, the header hash H is at most the channel's target
\* and was not in seen_shares immediately before the call
C12_ValidMeetsTargetAndIsNew ==
    [][(Calls("validate_share") /\ lastResult' \in {"Valid", "ValidWithAcknowledgement"})
        => /\ SubmittedHash.value <= target
           /\ SubmittedHash \notin share_accounting.seen_shares]_vars

\* a second share, with a hash other than the first one's, was accepted
C12_Witness ==
    /\ lastOp = "validate_share"
    /\ lastResult \in {"Valid", "ValidWithAcknowledgement"}
    /\ Cardinality(share_accounting.seen_shares) = 2
    /\ \A hash \in share_accounting.seen_shares : hash.value <= target

\* the share of a validate_share step is on an active or past job
SubmittedJobResolves ==
    /\ ~IsStaleJob(lastArgs'.job_id)
    /\ IsActiveJob(lastArgs'.job_id) \/ IsPastJob(lastArgs'.job_id)

\* the network target decoded from the chain tip's nbits
NetworkTarget == from_compact(Unwrap(chain_tip).nbits)

\* what update_share_accounting makes of the accounting for the share of a
\* validate_share step
SubmittedCounted ==
    [share_accounting EXCEPT
        !.seen_shares = @ \cup {SubmittedHash},
        !.shares_accepted = @ + 1,
        !.share_work_sum = @ + target_to_difficulty(target),
        !.last_sequence_number = lastArgs'.sequence_number]

\* C13: validate_share returns BlockFound only when the header hash H is at
\* most the network target decoded from the chain tip's nbits, and the network
\* target is looked at before the channel target: whenever the job resolves to
\* active or past, a tip is set and H <= network target, the verdict is
\* BlockFound, however H compares with the channel's target
C13_BlockFoundByNetworkTarget ==
    [][Calls("validate_share") =>
        /\ lastResult' = "BlockFound"
               => /\ SubmittedJobResolves
                  /\ IsSome(chain_tip)
                  /\ SubmittedHash.value <= NetworkTarget
        /\ (SubmittedJobResolves /\ IsSome(chain_tip) /\ SubmittedHash.value <= NetworkTarget)
               => lastResult' = "BlockFound"]_vars

\* a block was found with a hash above the channel's target
C13_Witness ==
    /\ lastOp = "validate_share"
    /\ lastResult = "BlockFound"
    /\ \E hash \in share_accounting.seen_shares :
           /\ hash.of.nonce = lastArgs.nonce
           /\ hash.value > target
           /\ hash.value <= from_compact(Unwrap(chain_tip).nbits)

\* C14: the block-found branch does not look for duplicates: a share whose
\* hash meets the network target and is already in seen_shares is answered
\* with BlockFound again, never DuplicateShare, and is counted again
C14_BlockFoundAgain ==
    [][(/\ Calls("validate_share")
        /\ SubmittedJobResolves
        /\ IsSome(chain_tip)
        /\ SubmittedHash.value <= NetworkTarget
        /\ SubmittedHash \in share_accounting.seen_shares)
        => /\ lastResult' = "BlockFound"
           /\ share_accounting' = SubmittedCounted
           /\ share_accounting'.shares_accepted = share_accounting.shares_accepted + 1
           /\ share_accounting'.seen_shares = share_accounting.seen_shares]_vars

\* the same block was found twice: two shares counted, one hash seen
C14_Witness ==
    /\ lastOp = "validate_share"
    /\ lastResult = "BlockFound"
    /\ share_accounting.shares_accepted = 2
    /\ Cardinality(share_accounting.seen_shares) = 1

\* C15: a share whose hash H is above the network target, at most the
\* channel's target and already in seen_shares yields DuplicateShare and
\* leaves the share accounting as it was; in particular the share that was
\* just accepted as Valid, submitted again right away, yields DuplicateShare
C15_DuplicateShareRefused ==
    [][Calls("validate_share") =>
        /\ (/\ SubmittedJobResolves
            /\ IsSome(chain_tip)
            /\ SubmittedHash.value > NetworkTarget
            /\ SubmittedHash.value <= target
            /\ SubmittedHash \in share_accounting.seen_shares)
               => /\ lastResult' = "DuplicateShare"
                  /\ UNCHANGED share_accounting
        /\ (/\ lastOp = "validate_share"
            /\ lastResult = "Valid"
            /\ lastArgs' = lastArgs)
               => /\ lastResult' = "DuplicateShare"
                  /\ UNCHANGED share_accounting]_vars

\* a share was refused as a duplicate of the one share accepted so far
C15_Witness ==
    /\ lastOp = "validate_share"
    /\ lastResult = "DuplicateShare"
    /\ share_accounting.shares_accepted = 1
    /\ share_accounting.last_sequence_number = lastArgs.sequence_number
    /\ \E hash \in share_accounting.seen_shares : hash.of.nonce = lastArgs.nonce

\* C16: for a share on an active or past job with a chain tip set,
\* validate_share returns DoesNotMeetTarget exactly when H is above the network
\* target and above the channel's target; H equal to the channel's target is
\* accepted, and DoesNotMeetTarget leaves the share accounting as it was
C16_DoesNotMeetTarget ==
    [][(Calls("validate_share") /\ SubmittedJobResolves /\ IsSome(chain_tip)) =>
        /\ lastResult' = "DoesNotMeetTarget"
               <=> (SubmittedHash.value > NetworkTarget /\ SubmittedHash.value > target)
        /\ (SubmittedHash.value > NetworkTarget /\ SubmittedHash.value = target)
               => lastResult' \in {"Valid", "ValidWithAcknowledgement", "DuplicateShare"}
        /\ lastResult' = "DoesNotMeetTarget" => UNCHANGED share_accounting]_vars

\* a share whose hash is the channel's target plus one was refused after a
\* share whose hash is the channel's target had been accepted
C16_Witness ==
    /\ lastOp = "validate_share"
    /\ lastResult = "DoesNotMeetTarget"
    /\ lastArgs.nonce = target + 1
    /\ \E hash \in share_accounting.seen_shares :
           hash.value = target /\ hash.value > from_compact(hash.of.bits)

ShareValidationErrors ==
    {"Stale", "InvalidJobId", "NoChainTip", "DoesNotMeetTarget", "DuplicateShare",
     "InvalidCoinbase"}

----------------------------------------------------------------------------
(* Handshake claims, checked under SpecNoise *)

\* C20: every successful step_1 returns exactly 234 bytes: bytes [0..64] are
\* the responder's ephemeral ElligatorSwift encoding, [64..144] the encrypted
\* static key (64 bytes and a 16-byte MAC), [144..234] the encrypted signature
\* message (74 bytes and a 16-byte MAC); the parts are contiguous and do not
\* overlap
C20_HandshakeMessageLayout ==
    [][(Calls("step_1") /\ lastResult' = "Ok") =>
        LET out == lastPayload'.out
            r == Unwrap(responder)
            message == get_signature(r, VERSION, 0, 0).bytes
        IN  /\ Len(out) = 234
            /\ \A i \in 1 .. 64 : out[i] = <<"ephemeral", i>>
            /\ \A i \in 1 .. 64 : out[64 + i] = <<"enc", <<"static", i>>>>
            /\ \A j \in 1 .. 16 : out[128 + j] = <<"mac", "static", j>>
            /\ \A i \in 1 .. 74 : out[144 + i] = <<"enc", message[i]>>
            /\ \A j \in 1 .. 16 : out[218 + j] = <<"mac", "signature_noise_message", j>>]_vars

\* a step_1 returned its message, with none of the zeroes the buffer started
\* with left in it
C20_Witness ==
    /\ lastOp = "step_1"
    /\ lastResult = "Ok"
    /\ Len(lastPayload.out) = 234
    /\ \A i \in 1 .. 234 : lastPayload.out[i] # <<"zero">>
    /\ lastPayload.out[234] = <<"mac", "signature_noise_message", 16>>


C22_SecretsDestroyedOnSuccess ==
    [][(Calls("step_1") /\ lastResult' = "Ok") =>
        /\ Unwrap(responder').k \in {None, Some(ZeroBytes)}
        /\ Unwrap(responder').c1 = None
        /\ Unwrap(responder').c2 = None]_vars

C24_FailureDestroysResponder ==
    [][Calls("step_1") =>
        /\ lastResult' = "Err" =>
              \/ dropped'
              \/ /\ Unwrap(responder').k \in {None, Some(ZeroBytes)}
                 /\ Unwrap(responder').ck = ZeroBytes
                 /\ Unwrap(responder').h = ZeroBytes
        /\ (lastOp = "step_1" /\ lastResult = "Err") => lastResult' # "Ok"]_vars


\* C25: once the responder was dropped, in whatever state, every sensitive
\* byte of it is zero: k when present, ck, h, the keys of c1 and c2 when
\* present, and the private keys of e, s and a.
C25_ErasedOnDrop ==
    dropped =>
        LET r == Unwrap(responder)
        IN  /\ r.k \in {None, Some(ZeroBytes)}
            /\ r.ck = ZeroBytes
            /\ r.h = ZeroBytes
            /\ IsSome(r.c1) => Unwrap(r.c1).k = None
            /\ IsSome(r.c2) => Unwrap(r.c2).k = None
            /\ r.e = 0
            /\ r.s = 0
            /\ r.a = 0

\* the fields of the responder that hold key material when it is dropped
SensitiveFields(r) ==
    {"ck", "h", "e", "s", "a"}
    \cup (IF IsSome(r.k) THEN {"k"} ELSE {})
    \cup (IF IsSome(r.c1) THEN {"c1"} ELSE {})
    \cup (IF IsSome(r.c2) THEN {"c2"} ELSE {})

\* C26: on drop, the key material of every sensitive field (k, ck, h, the
\* cipher keys, the private parts of e, s and a) is erased by a volatile
\* write to the field, and erase makes no write that is not volatile.
C26_ErasingWritesAreVolatile ==
    [][Calls("drop") =>
        /\ \A w \in lastPayload' : w.volatile
        /\ \A f \in SensitiveFields(Unwrap(responder)) :
              \E w \in lastPayload' : w.field = f /\ w.volatile /\ w.in_place]_vars


\* C27: the codec a successful step_1 returns encrypts with the second key of
\* the split (c2, temp_k2) and decrypts with the first (c1, temp_k1); the two
\* are different keys.
C27_CodecRoles ==
    [][(Calls("step_1") /\ lastResult' = "Ok") =>
        LET temp_k == hkdf_2(Unwrap(responder').ck, EmptyBuffer.term)
            codec == lastPayload'.codec
        IN  /\ codec.encryptor.cipher = temp_k[2]
            /\ codec.decryptor.cipher = temp_k[1]
            /\ codec.encryptor.cipher # codec.decryptor.cipher]_vars

\* a step_1 returned a codec whose encryptor holds a second key of a split
\* and whose decryptor a first one
C27_Witness ==
    /\ lastOp = "step_1"
    /\ lastResult = "Ok"
    /\ lastPayload.codec.encryptor.cipher[2] = 2
    /\ lastPayload.codec.decryptor.cipher[2] = 1

\* the signature message a successful step_1 encrypted last: the plaintext in
\* the last ciphertext mixed into h
SentSignatureMessage(r) == r.h[3][5]

\* C28: for every now and every cert_validity of 32 bits, a first step_1
\* returns a message whose certificate has version 0, valid_from = now and
\* not_valid_after = now + cert_validity >= valid_from, in bytes 0..2, 2..6
\* and 6..10 of the signature message; the addition neither overflows nor
\* wraps.
C28_CertificateValidity ==
    [][(Calls("step_1") /\ handshakes = 0) =>
        /\ lastResult' = "Ok"
        /\ LET now == lastArgs'.now
               message == SentSignatureMessage(Unwrap(responder'))
               out == lastPayload'.out
           IN  /\ message[1] = "SignatureNoiseMessage"
               /\ message[2] = 0
               /\ message[3] = now
               /\ message[4] = now + Unwrap(responder).cert_validity
               /\ message[4] >= message[3]
               /\ \A i \in 1 .. 2 : out[144 + i] = <<"enc", <<"version", i>>>>
               /\ \A i \in 1 .. 4 : out[146 + i] = <<"enc", <<"valid_from", i>>>>
               /\ \A i \in 1 .. 4 : out[150 + i] = <<"enc", <<"not_valid_after", i>>>>]_vars


----------------------------------------------------------------------------
(* Job lifecycle claims across templates and tips *)

\* C29: an on_new_template with a non-future template that returns Ok on a
\* channel with a chain tip puts the job that was active, if any, into past
\* and makes the new job the active one; every job that was in past stays in
\* it, and stale, future and the chain tip stay as they were.  No operation
\* but on_set_new_prev_hash changes stale.
C29_NonFutureTemplateFrame ==
    [][/\ (Calls("on_new_template") /\ ~lastArgs'.template.future_template
              /\ lastResult' = "Ok") =>
            /\ IsSome(chain_tip)
            /\ DOMAIN past_jobs' = DOMAIN past_jobs \cup ActiveJobIds
            /\ \A k \in DOMAIN past_jobs : past_jobs'[k] = past_jobs[k]
            /\ IsSome(active_job) =>
                   past_jobs'[Unwrap(active_job).job_id] = Unwrap(active_job)
            /\ IsSome(active_job')
            /\ Unwrap(active_job').job_id = next_job_id
            /\ Unwrap(active_job').template = lastArgs'.template
            /\ UNCHANGED <<stale_jobs, future_jobs, future_template_to_job_id, chain_tip>>
       /\ stale_jobs' # stale_jobs => Calls("on_set_new_prev_hash")]_vars

\* a non-future template became the active job of a channel that had an
\* active and a past job: both are in past now
C29_Witness ==
    /\ lastOp = "on_new_template"
    /\ lastResult = "Ok"
    /\ ~lastArgs.template.future_template
    /\ IsSome(active_job)
    /\ Cardinality(DOMAIN past_jobs) >= 2
    /\ Unwrap(active_job).job_id \notin DOMAIN past_jobs
    /\ IsSome(chain_tip)


\* C30: every on_set_new_prev_hash that returns Ok makes stale the jobs that
\* were active or past and evicts the jobs that were stale; a share on a
\* stale job is refused with Stale and a share on an evicted job (a job_id
\* handed out earlier that is in no collection any more) with InvalidJobId.
\* So a job that was active or past at a tip change is Stale until the next
\* one and InvalidJobId after it.  No job moves backwards: a stale job never
\* becomes past or active, a past job never active.
C30_JobLifecycle ==
    [][/\ (Calls("on_set_new_prev_hash") /\ lastResult' = "Ok") =>
            /\ JobIds(ActiveAndPast) \subseteq JobIds(stale_jobs')
            /\ \A id \in JobIds(stale_jobs) :
                   id \notin JobIds(stale_jobs') \cup JobIds(past_jobs')
                             \cup JobIds(future_jobs') \cup ActiveJobIds'
       /\ Calls("validate_share") =>
            /\ IsStaleJob(lastArgs'.job_id) => lastResult' = "Stale"
            /\ (lastArgs'.job_id < next_job_id
                /\ ~IsActiveJob(lastArgs'.job_id) /\ ~IsPastJob(lastArgs'.job_id)
                /\ ~IsStaleJob(lastArgs'.job_id) /\ ~IsFutureJob(lastArgs'.job_id))
                   => lastResult' = "InvalidJobId"
       /\ JobIds(stale_jobs) \cap (JobIds(past_jobs') \cup ActiveJobIds') = {}
       /\ JobIds(past_jobs) \cap ActiveJobIds' = {}]_vars


\* the job_ids of all the jobs the channel holds
HeldJobIds ==
    ActiveJobIds \cup JobIds(future_jobs) \cup JobIds(past_jobs) \cup JobIds(stale_jobs)

\* C32: job ids are monotone within a channel.  A new channel hands out
\* job_id 1 first; every on_new_template that returns Ok, future or not,
\* creates exactly one job, whose job_id is greater than every job_id handed
\* out before (the counter never goes back, and every job held has a job_id
\* below it); an on_new_template refused with ChainTipNotSet uses up no
\* job_id.
C32_JobIdsMonotone ==
    [][/\ (Calls("new") /\ lastResult' = "Ok") => (next_job_id' = 1 /\ HeldJobIds' = {})
       /\ (Calls("on_new_template") /\ lastResult' = "Ok") =>
            /\ HeldJobIds' \ HeldJobIds = {next_job_id}
            /\ \A id \in HeldJobIds : next_job_id > id
            /\ next_job_id' = next_job_id + 1
            /\ HeldJobIds = {} /\ next_job_id = 1 => HeldJobIds' = {1}
       /\ (Calls("on_new_template") /\ lastResult' = "ChainTipNotSet") =>
            /\ next_job_id' = next_job_id
            /\ HeldJobIds' = HeldJobIds
       /\ ~Calls("new") => next_job_id' >= next_job_id
       /\ \A id \in HeldJobIds' : id < next_job_id']_vars

\* the channel created its third job and holds the jobs 1, 2 and 3
C32_Witness ==
    /\ lastOp = "on_new_template"
    /\ lastResult = "Ok"
    /\ next_job_id = 4
    /\ Cardinality(HeldJobIds) = 3
    /\ HeldJobIds = 1 .. 3


\* C36: in every reachable state with an active job, that job was created or
\* activated under the channel's current chain tip: its min_ntime is the
\* chain tip's header_timestamp.
C36_ActiveJobUnderCurrentTip ==
    IsSome(active_job) =>
        /\ IsSome(chain_tip)
        /\ Unwrap(active_job).min_ntime = Some(Unwrap(chain_tip).header_timestamp)

----------------------------------------------------------------------------
(* Key and nonce use in the handshake *)

\* the (key, nonce) pairs of the AEAD encryptions a handshake hash h has
\* absorbed, in the order they were made
RECURSIVE AeadUses(_)
AeadUses(h) ==
    IF Len(h) < 3 THEN <<>>
    ELSE AeadUses(h[2]) \o (IF h[3][1] = "AEAD" THEN <<<<h[3][2], h[3][3]>>>> ELSE <<>>)

\* C40: no (key, nonce) pair is used for more than one AEAD encryption during
\* the handshake: whatever step is taken, the encryptions the responder has
\* made all differ in their (key, nonce) pair; a successful step_1 makes exactly
\* two, the static key's and the signature message's, each with nonce 0 and
\* under different keys, leaves n at 1, and hands out two session ciphers whose
\* keys differ from each other and from both handshake keys.
C40_NoKeyNonceReuse ==
    [][IsSome(responder') =>
        LET r == Unwrap(responder')
            uses == AeadUses(r.h)
        IN  /\ \A i, j \in 1 .. Len(uses) : i # j => uses[i] # uses[j]
            /\ (Calls("step_1") /\ lastResult' = "Ok") =>
                  /\ Len(uses) = 2
                  /\ AeadUses(Unwrap(responder).h) = <<>>
                  /\ uses[1][2] = 0 /\ uses[2][2] = 0
                  /\ uses[1][1] # uses[2][1]
                  /\ r.k = Some(uses[2][1])
                  /\ r.n = 1
                  /\ LET c == lastPayload'.codec
                     IN  /\ c.encryptor.cipher # c.decryptor.cipher
                         /\ {c.encryptor.cipher, c.decryptor.cipher}
                              \cap {uses[1][1], uses[2][1]} = {}]_vars

\* a handshake ended well: two encryptions were made, both with nonce 0
C40_Witness ==
    /\ lastOp = "step_1"
    /\ lastResult = "Ok"
    /\ IsSome(responder)
    /\ Len(AeadUses(Unwrap(responder).h)) = 2
    /\ AeadUses(Unwrap(responder).h)[1][2] = 0
    /\ AeadUses(Unwrap(responder).h)[2][2] = 0

----------------------------------------------------------------------------
(* Share accounting and timestamps across accepted shares *)

\* the verdicts of an accepted share
AcceptedVerdicts == {"Valid", "ValidWithAcknowledgement", "BlockFound"}

\* C39: a share whose ntime is lower than the min_ntime of the job it resolves
\* to is never accepted: validate_share returns none of Valid,
\* ValidWithAcknowledgement and BlockFound for it.
C39_NtimeNotBelowMinNtime ==
    [][(/\ Calls("validate_share")
        /\ SubmittedJobResolves
        /\ IsSome(SubmittedJob.min_ntime)
        /\ lastArgs'.ntime < Unwrap(SubmittedJob.min_ntime))
        => lastResult' \notin AcceptedVerdicts]_vars

\* how many more shares a ShareAccounting has counted than it has seen hashes
CountedAgain(sa) == sa.shares_accepted - Cardinality(sa.seen_shares)

\* C37, as stated: after any sequence of validate_share calls shares_accepted
\* equals the number of distinct hashes in seen_shares.
C37_AcceptedEqualsDistinctHashes ==
    constructed => share_accounting.shares_accepted = Cardinality(share_accounting.seen_shares)

\* C37, amended: shares_accepted is the number of distinct hashes in
\* seen_shares plus the number of BlockFound verdicts given for a hash that was
\* already in seen_shares.  A share accepted as Valid or
\* ValidWithAcknowledgement has a hash not seen before and is counted once, in
\* shares_accepted and in share_work_sum; the only hash counted again is the
\* one of a block found again.
C37_CountedOnceButBlocksFoundAgain ==
    [][/\ CountedAgain(share_accounting') >= 0
       /\ (Calls("new") /\ lastResult' = "Ok") => CountedAgain(share_accounting') = 0
       /\ Calls("validate_share") =>
            /\ CountedAgain(share_accounting') - CountedAgain(share_accounting)
                   = IF lastResult' = "BlockFound"
                        /\ SubmittedHash \in share_accounting.seen_shares
                     THEN 1 ELSE 0
            /\ share_accounting'.share_work_sum - share_accounting.share_work_sum
                   = ShareDifficulty * (share_accounting'.shares_accepted
                                           - share_accounting.shares_accepted)
            /\ lastResult' \in {"Valid", "ValidWithAcknowledgement"} =>
                  /\ SubmittedHash \notin share_accounting.seen_shares
                  /\ share_accounting'.seen_shares
                         = share_accounting.seen_shares \cup {SubmittedHash}
                  /\ share_accounting'.shares_accepted
                         = share_accounting.shares_accepted + 1]_vars

\* a block was found again: its hash is counted twice, in shares_accepted and
\* in share_work_sum
C37_Witness ==
    /\ lastOp = "validate_share"
    /\ lastResult = "BlockFound"
    /\ CountedAgain(share_accounting) = 1
    /\ share_accounting.share_work_sum = 2 * ShareDifficulty
    /\ ShareDifficulty > 0

----------------------------------------------------------------------------
(* Claims about the whole channel, checked under SpecChannel *)

\* the jobs the channel holds, in whichever collection
HeldJobs ==
    (IF IsSome(active_job) THEN {Unwrap(active_job)} ELSE {})
    \cup {future_jobs[k] : k \in DOMAIN future_jobs}
    \cup {past_jobs[k] : k \in DOMAIN past_jobs}
    \cup {stale_jobs[k] : k \in DOMAIN stale_jobs}

\* what a job keeps for the coinbase
Provenance(job) ==
    <<job.job_id, job.template, job.extranonce_prefix, job.coinbase_outputs>>

\* C31: the coinbase returned with BlockFound is rebuilt from the resolved
\* job's template, the extranonce_prefix the job was created with and the job's
\* coinbase outputs, and the template_id returned is the job's: a job is
\* created with the channel's prefix of that moment, keeps its template, prefix
\* and outputs through every later operation, set_extranonce_prefix included,
\* and BlockFound carries exactly these.
C31_CoinbaseFromJobProvenance ==
    [][/\ (Calls("validate_share") /\ lastResult' = "BlockFound") =>
            /\ lastPayload'.template_id = Some(SubmittedJob.template.template_id)
            /\ lastPayload'.coinbase.script_sig
                   = <<SubmittedJob.template.template_id, SubmittedJob.extranonce_prefix>>
            /\ lastPayload'.coinbase.output = SubmittedJob.coinbase_outputs
       /\ (Calls("on_new_template") /\ lastResult' = "Ok") =>
            \E job \in HeldJobs' :
                /\ job.job_id = next_job_id
                /\ job.extranonce_prefix = extranonce_prefix
                /\ job.template = lastArgs'.template
                /\ job.coinbase_outputs = lastArgs'.coinbase_reward_outputs
       /\ storeVars' # storeVars =>
            LET kept == {Provenance(held) : held \in HeldJobs}
            IN  \A job \in HeldJobs' : job.job_id = next_job_id \/ Provenance(job) \in kept
       /\ Calls("set_extranonce_prefix") => UNCHANGED storeVars]_vars

\* a block was found on a job whose prefix the channel has replaced since:
\* the coinbase carries the job's prefix
C31_Witness ==
    /\ lastOp = "validate_share"
    /\ lastResult = "BlockFound"
    /\ lastPayload.coinbase.script_sig[2] # extranonce_prefix
    /\ \E job \in HeldJobs :
           /\ job.job_id = lastArgs.job_id
           /\ job.extranonce_prefix = lastPayload.coinbase.script_sig[2]

VerdictOf(job_id, nonce, ntime, version, sequence_number) ==
    IF IsStaleJob(job_id) THEN <<"Stale", share_accounting>>
    ELSE IF ~IsActiveJob(job_id) /\ ~IsPastJob(job_id)
    THEN <<"InvalidJobId", share_accounting>>
    ELSE IF chain_tip = None THEN <<"NoChainTip", share_accounting>>
    ELSE LET job == CHOOSE held \in HeldJobs : held.job_id = job_id
             tip == Unwrap(chain_tip)
             hash == [of |-> [version |-> version, prev_blockhash |-> tip.prev_hash,
                              merkle_root |-> job.merkle_root, time |-> ntime,
                              bits |-> tip.nbits, nonce |-> nonce],
                      value |-> nonce % 2^TargetBits]
             counted == [share_accounting EXCEPT
                            !.seen_shares = @ \cup {hash},
                            !.shares_accepted = @ + 1,
                            !.share_work_sum = @ + target_to_difficulty(target),
                            !.last_sequence_number = sequence_number]
             best == [counted EXCEPT
                         !.best_diff = IF target_to_difficulty(hash.value) > @
                                       THEN target_to_difficulty(hash.value) ELSE @]
         IN  IF hash.value <= from_compact(tip.nbits) THEN <<"BlockFound", counted>>
             ELSE IF hash.value > target THEN <<"DoesNotMeetTarget", share_accounting>>
             ELSE IF hash \in share_accounting.seen_shares
             THEN <<"DuplicateShare", share_accounting>>
             ELSE IF best.shares_accepted % best.batch_size = 0
             THEN <<"ValidWithAcknowledgement", best>>
             ELSE <<"Valid", best>>

\* C34: validate_share is deterministic, and its verdict does not depend on
\* the share's channel_id: the verdict and the state after the call are a
\* function of the channel's state before the call and of the share's job_id,
\* nonce, ntime, version and sequence_number.
C34_VerdictWithoutChannelId ==
    [][Calls("validate_share") =>
        LET outcome == VerdictOf(lastArgs'.job_id, lastArgs'.nonce, lastArgs'.ntime,
                                 lastArgs'.version, lastArgs'.sequence_number)
        IN  /\ lastResult' = outcome[1]
            /\ share_accounting' = outcome[2]
            /\ UNCHANGED <<constructed, cfgVars, jobVars>>]_vars

\* a share sent under another channel_id was refused as the duplicate of a
\* share the channel had counted
C34_Witness ==
    /\ lastOp = "validate_share"
    /\ lastArgs.channel_id = 2
    /\ lastResult = "DuplicateShare"
    /\ share_accounting.shares_accepted = 1

\* C35: on a channel built by new, with an empty job store, and driven by
\* on_new_template, on_set_new_prev_hash, validate_share, update_channel and
\* set_extranonce_prefix, the chain tip is set whenever an active or past job
\* exists; hence validate_share never returns NoChainTip.
C35_TipSetWhenJobsResolve ==
    /\ (IsSome(active_job) \/ DOMAIN past_jobs # {}) => IsSome(chain_tip)
    /\ lastResult # "NoChainTip"

\* a share on a past job was accepted, after every other kind of call
C35_Witness ==
    /\ lastOp = "validate_share"
    /\ lastResult \in AcceptedVerdicts
    /\ IsPastJob(lastArgs.job_id)
    /\ IsSome(active_job)
    /\ IsSome(chain_tip)
    /\ extranonce_prefix.bytes = "b"
    /\ nominal_hashrate = 1

====
